---- MODULE Spec2Model ----
(***************************************************************************)
(* Maestro: the DB-backed conversation (messaging/conversation.py), its    *)
(* store (db/repository.py, db/session.py), the two kinds of turn that     *)
(* server.py starts (inbound message, heartbeat tick), the event bus       *)
(* (api/websocket.py) and the highlight worker (tools/vision.py).          *)
(*                                                                         *)
(* Texts are modelled by their length in characters; a summary also        *)
(* carries the set of message ids whose text went into it.                 *)
(***************************************************************************)
EXTENDS Integers, Sequences, FiniteSets, TLC

(***************************************************************************)
(* Program constants                                                       *)
(***************************************************************************)
KEEP_RECENT == 20

CHARS_PER_TOKEN == 4

\* COMPACTION_THRESHOLD = 0.65, kept as the fraction 65/100
THRESHOLD_NUM == 65

THRESHOLD_DEN == 100

\* _fallback_summary: old_text[:2000]
FALLBACK_CHARS == 2000

\* len("\n[...truncated...]")
TRUNC_MARK_LEN == 18

\* len("\n\n[Additional context]\n")
ADDITIONAL_MARK_LEN == 23

\* _messages_to_text: text[:500]
LINE_CHARS == 500

\* len("Super: ")
SUPER_LABEL_LEN == 7

\* len("Maestro: ")
MAESTRO_LABEL_LEN == 9

EngineNames == {"opus", "gemini", "gemini-flash", "gpt"}

PROVIDERS ==
  [ e \in EngineNames |->
      CASE e = "opus" -> [provider |-> "anthropic", context_limit |-> 1000000]
        [] e = "gemini" -> [provider |-> "google", context_limit |-> 1000000]
        [] e = "gemini-flash" -> [provider |-> "google", context_limit |-> 1000000]
        [] e = "gpt" -> [provider |-> "openai", context_limit |-> 128000] ]

DEFAULT == "gpt"

(***************************************************************************)
(* Bounds of the model                                                     *)
(***************************************************************************)
\* turns (inbound messages plus heartbeat ticks) that are started
MaxTurns == 2

\* tool calls the model makes in a run
MaxToolCalls == 1

\* length of a short text, in characters
SmallLen == 400

\* length of a long text, in characters
BigLen == 32000

\* length of a summary returned by the summarizer
SummaryLen == 1200

\* tokens of system prompt plus tool definitions, before / after the
\* switch_engine definition has been appended to tool_definitions
FixedTokensInit == 1000

FixedTokensSwitch == 1100

Threads == {"web", "hb"}

MsgLens == {SmallLen}

AnswerLens == {0, SmallLen}

\* engine names a switch_engine call may carry ("bogus" is not in PROVIDERS)
EngineArgs == {"gemini", "gpt", "bogus"}

\* engines the process may be started with (server.py main, argv[2])
InitEngines == {"gpt", "opus"}

(***************************************************************************)
(* Helpers                                                                 *)
(***************************************************************************)
Min(a, b) == IF a < b THEN a ELSE b

Ids(s) == {s[i].id : i \in 1..Len(s)}

\* the sum of a sequence of numbers, by halves
RECURSIVE SumLens(_)
SumLens(s) ==
  IF s = <<>> THEN 0
  ELSE IF Len(s) = 1 THEN s[1]
  ELSE LET h == Len(s) \div 2
       IN SumLens(SubSeq(s, 1, h)) + SumLens(SubSeq(s, h + 1, Len(s)))

(***************************************************************************)
(* Token estimation and compaction helpers (conversation.py)               *)
(***************************************************************************)
\* an estimate of one token per character
estimate_tokens_per_char(len) == len

\* _estimate_tokens: len(text) // CHARS_PER_TOKEN
estimate_tokens(len) == len \div CHARS_PER_TOKEN

\* _estimate_messages_tokens: the estimates of the messages, added up
estimate_messages_tokens(msgs) ==
  SumLens([i \in 1..Len(msgs) |-> estimate_tokens(msgs[i].len)])

\* total / context_limit >= 0.65, the division being exact on these values
needs_compaction(system_tokens, summary_tokens, message_tokens, context_limit) ==
  LET total == system_tokens + summary_tokens + message_tokens
  IN IF context_limit > 0
       THEN total * THRESHOLD_DEN >= THRESHOLD_NUM * context_limit
       ELSE TRUE

\* length of the text _messages_to_text builds: one labelled line per
\* message with a non-blank text, joined by newlines
TextLines(msgs) ==
  LET shown == SelectSeq(msgs, LAMBDA m : m.len > 0)
  IN [i \in 1..Len(shown) |->
        (IF shown[i].role = "user" THEN SUPER_LABEL_LEN ELSE MAESTRO_LABEL_LEN)
          + Min(shown[i].len, LINE_CHARS)]

messages_to_text(msgs) ==
  LET lines == TextLines(msgs)
  IN IF lines = <<>> THEN 0 ELSE SumLens(lines) + (Len(lines) - 1)

EmptySummary == [len |-> 0, src |-> {}]

\* a fallback that keeps the truncated old text and drops the summary so far
fallback_summary_forgetful(existing, old_len, old_ids) ==
  LET truncated == IF old_len > FALLBACK_CHARS
                     THEN FALLBACK_CHARS + TRUNC_MARK_LEN
                     ELSE old_len
  IN [len |-> truncated, src |-> old_ids]

\* _fallback_summary, on lengths; src is the set of messages in old_text
fallback_summary(existing, old_len, old_ids) ==
  LET truncated == IF old_len > FALLBACK_CHARS
                     THEN FALLBACK_CHARS + TRUNC_MARK_LEN
                     ELSE old_len
  IN IF existing.len > 0
       THEN [len |-> existing.len + ADDITIONAL_MARK_LEN + truncated,
             src |-> existing.src \cup old_ids]
       ELSE [len |-> truncated, src |-> old_ids]

(***************************************************************************)
(* Store queries (repository.py)                                           *)
(***************************************************************************)
\* ORDER BY created_at; rows with equal created_at come in id order
Before(a, b) ==
  \/ a.created_at < b.created_at
  \/ a.created_at = b.created_at /\ a.id < b.id

\* the rows in that order: those before the middle row, it, those after it
RECURSIVE SortByCreated(_)
SortByCreated(s) ==
  IF Len(s) <= 1 THEN s
  ELSE LET pivot == s[(Len(s) + 1) \div 2]
       IN SortByCreated(SelectSeq(s, LAMBDA m : Before(m, pivot)))
            \o <<pivot>>
            \o SortByCreated(SelectSeq(s, LAMBDA m : Before(pivot, m)))

\* get_messages(project_id): the rows, oldest created_at first
get_messages(rows) == SortByCreated(rows)

count_messages(rows) == Len(rows)

\* a DELETE with the comparison the other way round: WHERE id > message_id
delete_messages_after(rows, message_id) ==
  SelectSeq(rows, LAMBDA m : m.id <= message_id)

\* delete_messages_before: DELETE ... WHERE id < message_id
delete_messages_before(rows, message_id) ==
  SelectSeq(rows, LAMBDA m : m.id >= message_id)

\* _get_workspace_row(...) is not None: a row of the project has the slug
has_workspace(rows, slug) == \E i \in 1..Len(rows) : rows[i].slug = slug

\* the rows a query by (project_id, slug) matches; .first() has no ORDER BY
workspace_rows(rows, slug) == {rows[i] : i \in {j \in 1..Len(rows) : rows[j].slug = slug}}

\* _get_workspace_page: is there a row of the page in the workspace
has_page(rows, slug, page_name) ==
  \E i \in 1..Len(rows) : rows[i].slug = slug /\ rows[i].page = page_name

\* the row .first() yields for (workspace, page_name): the lowest id
first_page(rows, slug, page_name) ==
  CHOOSE i \in 1..Len(rows) :
    /\ rows[i].slug = slug /\ rows[i].page = page_name
    /\ \A j \in 1..(i - 1) : ~(rows[j].slug = slug /\ rows[j].page = page_name)

\* heartbeat.py: the hours of the day and the intervals in minutes
WORK_START == 7

WORK_END == 18

SILENT_START == 22

SILENT_END == 7

WORK_INTERVAL_MIN == 30

OFF_INTERVAL_MIN == 60

BOREDOM_ADVENTUROUS_THRESHOLD == 3

MINUTES_PER_HOUR == 60

HOURS_PER_DAY == 24

\* datetime.now().hour of a time in minutes
HourOf(t) == (t \div MINUTES_PER_HOUR) % HOURS_PER_DAY

\* a silent window that does not wrap around midnight
is_silent_hours_unwrapped(t) == HourOf(t) >= SILENT_START /\ HourOf(t) < SILENT_END

is_silent_hours(t) == HourOf(t) >= SILENT_START \/ HourOf(t) < SILENT_END

is_work_hours(t) == WORK_START <= HourOf(t) /\ HourOf(t) < WORK_END

get_interval_minutes(t) ==
  IF is_silent_hours(t) THEN 0
  ELSE IF is_work_hours(t) THEN WORK_INTERVAL_MIN
  ELSE OFF_INTERVAL_MIN

\* state["last_heartbeat"] == ""
NoLast == -1

\* _default_state
default_state == [last_heartbeat |-> NoLast, boredom_streak |-> 0]

\* should_heartbeat at time t; the elapsed minutes are t - last_heartbeat
should_heartbeat(state, t) ==
  IF is_silent_hours(t) THEN FALSE
  ELSE IF get_interval_minutes(t) = 0 THEN FALSE
  ELSE IF state.last_heartbeat = NoLast THEN TRUE
  ELSE t - state.last_heartbeat >= get_interval_minutes(t)

\* s.delete(page)
delete_row(rows, i) == SubSeq(rows, 1, i - 1) \o SubSeq(rows, i + 1, Len(rows))

\* a table as a function from keys to rows: insert or overwrite, delete
Put(f, k, v) == [x \in DOMAIN f \cup {k} |-> IF x = k THEN v ELSE f[x]]

Drop(f, k) == [x \in DOMAIN f \ {k} |-> f[x]]

\* add_event: INSERT of a row under a fresh id
add_event(evs, event_id, title) == Put(evs, event_id, title)

(***************************************************************************)
(* Event bus (api/websocket.py, repository._emit_ws)                       *)
(***************************************************************************)
\* the emitters api/websocket.py defines
WsExports ==
  { "emit_message", "emit_heartbeat", "emit_finding", "emit_workspace_change",
    "emit_page_description_updated", "emit_page_highlight_started",
    "emit_page_highlight_complete", "emit_schedule_change", "emit_compaction",
    "emit_engine_switch", "emit_status" }

\* an import list of names api/websocket.py all defines
EmitWsImportsDefined ==
  { "emit_compaction", "emit_engine_switch", "emit_message",
    "emit_page_description_updated", "emit_page_highlight_complete",
    "emit_page_highlight_started", "emit_schedule_change",
    "emit_workspace_change" }

\* the names _emit_ws imports from it before it looks fn_name up
EmitWsImports ==
  { "emit_compaction", "emit_engine_switch", "emit_message",
    "emit_page_description_updated", "emit_page_highlight_complete",
    "emit_page_highlight_failed", "emit_page_highlight_started",
    "emit_schedule_change", "emit_workspace_change" }

EmitWsTable ==
  { "message", "workspace", "schedule", "compaction", "engine_switch",
    "page_description_updated", "page_highlight_started",
    "page_highlight_complete", "page_highlight_failed" }

\* the keyword parameters of the emitters tools/vision.py calls, all required
WsParams ==
  [ fn \in {"emit_page_highlight_started", "emit_page_highlight_complete"} |->
      IF fn = "emit_page_highlight_started"
        THEN {"workspace_slug", "page_name", "mission"}
        ELSE {"workspace_slug", "page_name", "highlight_id", "mission", "image_path"} ]

\* try: from maestro.api.websocket import fn; fn(**kwargs); except: pass
call_ws(b, fn, kwargs, ev) ==
  IF fn \in WsExports /\ fn \in DOMAIN WsParams /\ kwargs = WsParams[fn]
    THEN Append(b, ev)
    ELSE b

\* an _emit_ws without its try/except: the failed import leaves it
emit_ws_unguarded(fn_name) ==
  ~(EmitWsImports \subseteq WsExports /\ fn_name \in EmitWsTable)

\* whether _emit_ws raises into its caller: except Exception: pass
emit_ws_raises(fn_name) == FALSE

\* _emit_ws: the import raises when a name is missing, and the except
\* clause swallows it; otherwise the event goes to broadcast_sync
emit_ws(b, fn_name, ev) ==
  IF EmitWsImports \subseteq WsExports /\ fn_name \in EmitWsTable
    THEN Append(b, ev)
    ELSE b

(***************************************************************************)
(* State                                                                   *)
(***************************************************************************)
VARIABLES
  messages,         \* rows of the messages table, in insertion (id) order
  nextId,           \* next autoincrement id of the messages table
  clock,            \* what _utcnow() returns next
  summary,          \* conversation_state.summary
  total_exchanges,  \* conversation_state.total_exchanges
  compactions,      \* conversation_state.compactions
  engine_name,      \* Conversation.engine_name (provider, limit follow it)
  fixed_tokens,     \* Conversation._fixed_tokens
  chat,             \* Conversation._chat: the stateful Gemini chat session
  pc,               \* where each thread is
  loc,              \* the locals of each thread
  turns,            \* turns started so far
  bus,              \* message and tool events handed to broadcast_sync, in order
  events,           \* schedule_events: event id -> title
  nextEvt,          \* stands for the fresh uuid of _generate_event_id
  toolCalls,        \* tool calls made so far
  workspaces,       \* the rows of workspaces, in insert order
  pages,            \* the rows of workspace_pages, in insert order
  notes,            \* workspace_notes: slug -> number of notes
  highlights,       \* workspace_highlights: id -> row
  nextHl,           \* next autoincrement id of workspace_highlights
  worker,           \* where the highlight worker of each spawned id is
  was_below,        \* history: the usage test of _maybe_compact has come out
                    \* false on the stored state since the last compaction
  context_limit,    \* Conversation.context_limit
  creating,         \* where each caller of create_workspace is
  adding,           \* where each caller of add_page is
  answer,           \* what the create_workspace or add_page call that
                    \* returned last was asked and what it returned
  clients,          \* websocket._clients
  sock,             \* the state of each WebSocket connection
  bc,               \* the broadcast coroutine: its loop over _clients
  got,              \* the events each connection has received
  ret,              \* how the last add_message call made on its own ended
  now,              \* datetime.now(), in minutes since a midnight
  hb_state,         \* heartbeat_state.json
  beat,             \* the pass of _heartbeat_loop: where it is, its decision
  outbox,           \* the texts handed to sendblue_send, in order
  gathered,         \* the arguments of a decide_heartbeat_mode call
  hook,             \* the webhook: its requests so far and its last response
  tasks,            \* the _handle_message tasks created and not yet started
  running,          \* the conversation.send calls running in the executor
  toolrun,          \* a provider's send_message: its tool-use loop
  ks_file,          \* pass1.json and pass2.json of the page on disk
  ks_page,          \* the page in the in-memory project dict
  upd,              \* where each caller of update_knowledge is
  hbox,             \* the boxes last passed to complete_highlight, and the
                    \* bboxes column they left
  sched,            \* schedule_events with their dates: id -> row
  db,               \* the tables of one project, for its deletion
  jobs,             \* the learning queue: the job files of each directory
  lock,             \* the learning worker lock file
  lw                \* where each process that may run the learning worker is

convVars == <<messages, nextId, clock, summary, total_exchanges, compactions,
              engine_name, fixed_tokens, chat, pc, loc, turns, toolCalls,
              was_below, context_limit>>

storeVars == <<workspaces, pages, notes, highlights, nextHl, worker, creating,
               adding, answer>>

hubVars == <<clients, sock, bc, got, ret>>

beatVars == <<now, hb_state, beat, outbox, gathered>>

webVars == <<hook, tasks, running>>

\* the state outside the conversation, the store and the hub
toolVars == <<toolrun>>

knowVars == <<ks_file, ks_page, upd>>

boxVars == <<hbox>>

\* the schedule dates, the project tables and the learning queue
lateVars == <<sched, db, jobs, lock, lw>>

outerVars == <<beatVars, webVars, toolVars, knowVars, boxVars, lateVars>>

\* what the scheduler leaves alone
notBeat == <<webVars, toolVars, knowVars, boxVars, lateVars>>

\* what the webhook leaves alone, the outbound sender apart
notWeb == <<now, hb_state, beat, gathered, toolVars, knowVars, boxVars, lateVars>>

\* what a provider's tool-use loop leaves alone
notTools == <<beatVars, webVars, knowVars, boxVars, lateVars>>

\* what update_knowledge leaves alone
notKnow == <<beatVars, webVars, toolVars, boxVars, lateVars>>

\* what the bbox path leaves alone
notBox == <<beatVars, webVars, toolVars, knowVars, lateVars>>

\* everything outside the conversation, the store and the hub that the
\* schedule dates, the project deletion and the learning queue leave alone
notLate == <<beatVars, webVars, toolVars, knowVars, boxVars>>

provider_name == PROVIDERS[engine_name].provider

\* not _needs_compaction(...), evaluated on what is stored
Below(fixed, s, rows, limit) ==
  ~needs_compaction(fixed, estimate_tokens(s.len),
                    estimate_messages_tokens(get_messages(rows)), limit)

BelowThreshold == Below(fixed_tokens, summary, messages, context_limit)

NoChat == [live |-> FALSE, hist |-> <<>>]

\* no row
NoRow == [slug |-> "", title |-> "", description |-> "", status |-> ""]

\* a caller that is not inside create_workspace
NotCreating == [pc |-> "idle", slug |-> "", title |-> "", description |-> ""]

\* a caller that is not inside add_page
NotAdding == [pc |-> "idle", slug |-> "", page |-> ""]

\* no create_workspace or add_page call has returned yet
NoAnswer == [fn |-> "none", asked |-> NoRow, how |-> "none", ret |-> NoRow]

\* the WebSocket connections there can be
Sockets == {"a", "b", "c"}

\* no add_message call has been made on its own
NoCall == [id |-> 0, db_ok |-> FALSE, raised |-> FALSE]

\* no broadcast has run yet
NoBroadcast ==
  [pc |-> "idle", ev |-> 0, size |-> 0, seen |-> {}, dead |-> {}, at_start |-> {}]

NewChat == [live |-> TRUE, hist |-> <<>>]

InitLoc ==
  [ turn |-> 0, msgLen |-> 0, ts |-> 0, myId |-> 0, caller |-> "none",
    summary |-> EmptySummary, msgs |-> <<>>, cutoff |-> 0,
    newSummary |-> EmptySummary, apiSummary |-> EmptySummary, apiMsgs |-> <<>>,
    via |-> "none", answerLen |-> 0, fell_back |-> FALSE,
    compacted |-> FALSE, exchanges |-> 0 ]

\* a store left by earlier runs: n rows of one length, ids 1..n, stamped in
\* id order except that the rows swapAt and swapAt + 1 (if any) were stamped
\* in the opposite order by two overlapping add_message calls
Stamp(i, swapAt) ==
  IF swapAt > 0 /\ i = swapAt THEN i + 1
  ELSE IF swapAt > 0 /\ i = swapAt + 1 THEN i - 1
  ELSE i

Preload(n, len, swapAt) ==
  [ i \in 1..n |->
      [ id |-> i, role |-> IF i % 2 = 1 THEN "user" ELSE "assistant",
        len |-> len, created_at |-> Stamp(i, swapAt) ] ]

PreloadStores ==
  { Preload(0, SmallLen, 0), Preload(KEEP_RECENT - 1, BigLen, 0),
    Preload(KEEP_RECENT, BigLen, 2), Preload(KEEP_RECENT + 1, BigLen, 0) }

(***************************************************************************)
(* Turns: server._handle_message and server._heartbeat_loop                *)
(***************************************************************************)
Ev(type, role, turn) == [type |-> type, role |-> role, turn |-> turn]

\* a _handle_message that does not emit before it calls conversation.send
HandleMessageQuiet(t) ==
  /\ t = "web"
  /\ pc[t] = "idle"
  /\ turns < MaxTurns
  /\ \E len \in MsgLens :
       loc' = [loc EXCEPT ![t] = [InitLoc EXCEPT !.turn = turns + 1, !.msgLen = len]]
  /\ turns' = turns + 1
  /\ pc' = [pc EXCEPT ![t] = "send"]
  /\ UNCHANGED <<messages, nextId, clock, summary, total_exchanges, compactions,
                 engine_name, fixed_tokens, chat, bus, events, nextEvt, toolCalls>>
  /\ UNCHANGED <<storeVars, hubVars, outerVars, context_limit, was_below>>

\* _handle_message up to the call of conversation.send: emit_message("user")
HandleMessage(t) ==
  /\ t = "web"
  /\ pc[t] = "idle"
  /\ turns < MaxTurns
  /\ \E len \in MsgLens :
       loc' = [loc EXCEPT ![t] = [InitLoc EXCEPT !.turn = turns + 1, !.msgLen = len]]
  /\ turns' = turns + 1
  /\ bus' = Append(bus, Ev("message", "user", turns + 1))
  /\ pc' = [pc EXCEPT ![t] = "send"]
  /\ UNCHANGED <<messages, nextId, clock, summary, total_exchanges, compactions,
                 engine_name, fixed_tokens, chat, events, nextEvt, toolCalls>>
  /\ UNCHANGED <<storeVars, hubVars, outerVars, context_limit, was_below>>

\* one pass of _heartbeat_loop whose decision is not "skip" and has a
\* prompt: conversation.send(prompt)
HeartbeatTick(t) ==
  /\ t = "hb"
  /\ pc[t] = "idle"
  /\ turns < MaxTurns
  /\ \E len \in MsgLens :
       loc' = [loc EXCEPT ![t] = [InitLoc EXCEPT !.turn = turns + 1, !.msgLen = len]]
  /\ turns' = turns + 1
  /\ pc' = [pc EXCEPT ![t] = "send"]
  /\ UNCHANGED <<messages, nextId, clock, summary, total_exchanges, compactions,
                 engine_name, fixed_tokens, chat, bus, events, nextEvt, toolCalls>>
  /\ UNCHANGED <<storeVars, hubVars, outerVars, context_limit, was_below>>

(***************************************************************************)
(* Conversation.send                                                       *)
(***************************************************************************)
\* add_message, first half: the flush evaluates the column default _utcnow()
StampMessage(t, from, to) ==
  /\ pc[t] = from
  /\ loc' = [loc EXCEPT ![t].ts = clock]
  /\ clock' = clock + 1
  /\ pc' = [pc EXCEPT ![t] = to]
  /\ UNCHANGED <<messages, nextId, summary, total_exchanges, compactions,
                 engine_name, fixed_tokens, chat, turns, bus, events, nextEvt, toolCalls>>
  /\ UNCHANGED <<storeVars, hubVars, outerVars, context_limit, was_below>>

\* add_message, second half: the INSERT assigns the id; then _emit_ws
InsertMessage(t, from, to, role, len) ==
  /\ pc[t] = from
  /\ messages' = Append(messages, [id |-> nextId, role |-> role, len |-> len,
                                   created_at |-> loc[t].ts])
  /\ nextId' = nextId + 1
  /\ bus' = emit_ws(bus, "message", Ev("message", role, loc[t].turn))
  /\ loc' = [loc EXCEPT ![t].myId = IF role = "user" THEN nextId ELSE @]
  /\ pc' = [pc EXCEPT ![t] = to]
  /\ UNCHANGED <<clock, summary, total_exchanges, compactions,
                 engine_name, fixed_tokens, chat, turns, events, nextEvt, toolCalls>>
  /\ UNCHANGED <<storeVars, hubVars, outerVars, context_limit, was_below>>

SendStampUser(t) == StampMessage(t, "send", "add_user")

SendAddUser(t) == InsertMessage(t, "add_user", "mc_summary", "user", loc[t].msgLen)

(***************************************************************************)
(* Conversation._maybe_compact                                             *)
(***************************************************************************)
\* a _maybe_compact that runs again from the top instead of returning
AfterCompactRetry(t) == "mc_summary"

\* where _maybe_compact returns to: send goes on to build the request,
\* switch_engine returns its string to the tool loop
AfterCompact(t) == IF loc[t].caller = "switch" THEN "loop" ELSE "build_summary"

ClearCompact(l) ==
  [l EXCEPT !.summary = EmptySummary, !.msgs = <<>>, !.cutoff = 0,
            !.newSummary = EmptySummary, !.caller = "none",
            !.fell_back = FALSE]

\* summary = self._get_summary()
CompactReadSummary(t) ==
  /\ pc[t] = "mc_summary"
  /\ loc' = [loc EXCEPT ![t].summary = summary]
  /\ pc' = [pc EXCEPT ![t] = "mc_messages"]
  /\ UNCHANGED <<messages, nextId, clock, summary, total_exchanges, compactions,
                 engine_name, fixed_tokens, chat, turns, bus, events, nextEvt, toolCalls>>
  /\ UNCHANGED <<storeVars, hubVars, outerVars, context_limit, was_below>>

\* a _maybe_compact without the test len(messages) <= KEEP_RECENT
CompactReadMessagesAnyLength(t) ==
  /\ pc[t] = "mc_messages"
  /\ LET msgs == get_messages(messages)
         needs == needs_compaction(fixed_tokens, estimate_tokens(loc[t].summary.len),
                                   estimate_messages_tokens(msgs), context_limit)
     IN IF needs
          THEN /\ loc' = [loc EXCEPT ![t].msgs = msgs]
               /\ pc' = [pc EXCEPT ![t] = "mc_rows"]
          ELSE /\ loc' = [loc EXCEPT ![t] = ClearCompact(loc[t])]
               /\ pc' = [pc EXCEPT ![t] = AfterCompact(t)]
  /\ UNCHANGED <<messages, nextId, clock, summary, total_exchanges, compactions,
                 engine_name, fixed_tokens, chat, turns, bus, events, nextEvt, toolCalls>>
  /\ UNCHANGED <<storeVars, hubVars, outerVars, context_limit, was_below>>

\* messages = self._get_messages(); return unless _needs_compaction and
\* len(messages) > KEEP_RECENT
CompactReadMessages(t) ==
  /\ pc[t] = "mc_messages"
  /\ LET msgs == get_messages(messages)
         needs == needs_compaction(fixed_tokens, estimate_tokens(loc[t].summary.len),
                                   estimate_messages_tokens(msgs), context_limit)
     IN IF needs /\ Len(msgs) > KEEP_RECENT
          THEN /\ loc' = [loc EXCEPT ![t].msgs = msgs]
               /\ pc' = [pc EXCEPT ![t] = "mc_rows"]
          ELSE /\ loc' = [loc EXCEPT ![t] = ClearCompact(loc[t])]
               /\ pc' = [pc EXCEPT ![t] = AfterCompact(t)]
  /\ UNCHANGED <<messages, nextId, clock, summary, total_exchanges, compactions,
                 engine_name, fixed_tokens, chat, turns, bus, events, nextEvt, toolCalls>>
  /\ UNCHANGED <<storeVars, hubVars, outerVars, context_limit, was_below>>

\* all_rows = repo.get_messages(...); cutoff_id = all_rows[-KEEP_RECENT]["id"]
CompactReadRows(t) ==
  /\ pc[t] = "mc_rows"
  /\ LET all_rows == get_messages(messages)
     IN IF Len(all_rows) <= KEEP_RECENT
          THEN /\ loc' = [loc EXCEPT ![t] = ClearCompact(loc[t])]
               /\ pc' = [pc EXCEPT ![t] = AfterCompact(t)]
          ELSE /\ loc' = [loc EXCEPT ![t].cutoff =
                                        all_rows[Len(all_rows) - KEEP_RECENT + 1].id]
               /\ pc' = [pc EXCEPT ![t] = "mc_summarize"]
  /\ UNCHANGED <<messages, nextId, clock, summary, total_exchanges, compactions,
                 engine_name, fixed_tokens, chat, turns, bus, events, nextEvt, toolCalls>>
  /\ UNCHANGED <<storeVars, hubVars, outerVars, context_limit, was_below>>

\* old_messages = messages[:-KEEP_RECENT]
old_messages(msgs) == SubSeq(msgs, 1, Len(msgs) - KEEP_RECENT)

\* the summarizer answers with some text made from the prompt, or raises
\* and _fallback_summary is used
CompactSummarize(t) ==
  /\ pc[t] = "mc_summarize"
  /\ LET old == old_messages(loc[t].msgs)
     IN \E ok \in BOOLEAN :
          loc' = [loc EXCEPT ![t].newSummary =
                    IF ok THEN [len |-> SummaryLen,
                                src |-> loc[t].summary.src \cup Ids(old)]
                          ELSE fallback_summary(loc[t].summary, messages_to_text(old),
                                                Ids(old)),
                             ![t].fell_back = ~ok]
  /\ pc' = [pc EXCEPT ![t] = "mc_delete"]
  /\ UNCHANGED <<messages, nextId, clock, summary, total_exchanges, compactions,
                 engine_name, fixed_tokens, chat, turns, bus, events, nextEvt, toolCalls>>
  /\ UNCHANGED <<storeVars, hubVars, outerVars, context_limit, was_below>>

\* deleted = repo.delete_messages_before(self.project_id, cutoff_id)
CompactDelete(t) ==
  /\ pc[t] = "mc_delete"
  /\ messages' = delete_messages_before(messages, loc[t].cutoff)
  /\ pc' = [pc EXCEPT ![t] = "mc_update"]
  /\ UNCHANGED <<nextId, clock, summary, total_exchanges, compactions,
                 engine_name, fixed_tokens, chat, loc, turns, bus, events, nextEvt, toolCalls>>
  /\ UNCHANGED <<storeVars, hubVars, outerVars, context_limit>>
  /\ was_below' = (was_below \/ Below(fixed_tokens', summary', messages', context_limit'))

\* repo.update_conversation_state(summary=new_summary, increment_compactions=True)
CompactUpdate(t) ==
  /\ pc[t] = "mc_update"
  /\ summary' = loc[t].newSummary
  /\ compactions' = compactions + 1
  /\ pc' = [pc EXCEPT ![t] = AfterCompact(t)]
  /\ loc' = [loc EXCEPT ![t] = [ClearCompact(loc[t]) EXCEPT !.compacted = TRUE]]
  /\ UNCHANGED <<messages, nextId, clock, total_exchanges,
                 engine_name, fixed_tokens, chat, turns, bus, events, nextEvt, toolCalls>>
  /\ UNCHANGED <<storeVars, hubVars, outerVars, context_limit>>
  /\ was_below' = Below(fixed_tokens', summary', messages', context_limit')

(***************************************************************************)
(* Conversation._build_messages_for_api and the provider call              *)
(***************************************************************************)
\* summary = self._get_summary()
BuildReadSummary(t) ==
  /\ pc[t] = "build_summary"
  /\ loc' = [loc EXCEPT ![t].apiSummary = summary]
  /\ pc' = [pc EXCEPT ![t] = "build_messages"]
  /\ UNCHANGED <<messages, nextId, clock, summary, total_exchanges, compactions,
                 engine_name, fixed_tokens, chat, turns, bus, events, nextEvt, toolCalls>>
  /\ UNCHANGED <<storeVars, hubVars, outerVars, context_limit, was_below>>

IdRole(msgs) == [i \in 1..Len(msgs) |-> [id |-> msgs[i].id, role |-> msgs[i].role]]

\* messages.extend(self._get_messages())
BuildReadMessages(t) ==
  /\ pc[t] = "build_messages"
  /\ loc' = [loc EXCEPT ![t].apiMsgs = IdRole(get_messages(messages))]
  /\ pc' = [pc EXCEPT ![t] = "provider"]
  /\ UNCHANGED <<messages, nextId, clock, summary, total_exchanges, compactions,
                 engine_name, fixed_tokens, chat, turns, bus, events, nextEvt, toolCalls>>
  /\ UNCHANGED <<storeVars, hubVars, outerVars, context_limit, was_below>>

\* what the stateless adapters post: the summary pair, then api_messages
StatelessRequest(l) == [summary |-> l.apiSummary, msgs |-> l.apiMsgs]

\* what the Gemini chat session holds once chat.send_message(message) is
\* called: the texts sent through this session, then the new one
GoogleRequest(l) ==
  [summary |-> EmptySummary,
   msgs |-> Append(chat.hist, [id |-> l.myId, role |-> "user"])]

\* the request send is about to issue, by the provider now configured
Request(t) ==
  IF provider_name = "google" THEN GoogleRequest(loc[t]) ELSE StatelessRequest(loc[t])

\* send, lines 290-297, up to the adapter's first request to the model
ProviderRequest(t) ==
  /\ pc[t] = "provider"
  /\ chat' = IF provider_name = "google" THEN [chat EXCEPT !.hist = Request(t).msgs]
                                         ELSE chat
  /\ loc' = [loc EXCEPT ![t].via = provider_name, ![t].apiSummary = EmptySummary,
                        ![t].apiMsgs = <<>>]
  /\ pc' = [pc EXCEPT ![t] = "loop"]
  /\ UNCHANGED <<messages, nextId, clock, summary, total_exchanges, compactions,
                 engine_name, fixed_tokens, turns, bus, events, nextEvt, toolCalls>>
  /\ UNCHANGED <<storeVars, hubVars, outerVars, context_limit, was_below>>

\* a provider request fails (network, schema rejection): send raises
ProviderError(t) ==
  /\ pc[t] = "loop"
  /\ pc' = [pc EXCEPT ![t] = "raised"]
  /\ UNCHANGED <<messages, nextId, clock, summary, total_exchanges, compactions,
                 engine_name, fixed_tokens, chat, loc, turns, bus, events, nextEvt, toolCalls>>
  /\ UNCHANGED <<storeVars, hubVars, outerVars, context_limit, was_below>>

(***************************************************************************)
(* Tools called from the adapter's tool loop                               *)
(***************************************************************************)
\* repository.add_event, reached through tools/schedule.py
ToolAddEvent(t) ==
  /\ pc[t] = "loop"
  /\ toolCalls < MaxToolCalls
  /\ toolCalls' = toolCalls + 1
  /\ events' = add_event(events, nextEvt, "t1")
  /\ nextEvt' = nextEvt + 1
  /\ bus' = emit_ws(bus, "schedule", Ev("schedule", "added", loc[t].turn))
  /\ UNCHANGED <<messages, nextId, clock, summary, total_exchanges, compactions,
                 engine_name, fixed_tokens, chat, pc, loc, turns>>
  /\ UNCHANGED <<storeVars, hubVars, outerVars, context_limit, was_below>>

\* Conversation.switch_engine, up to its call of _maybe_compact
SwitchEngine(t, engine) ==
  /\ pc[t] = "loop"
  /\ toolCalls < MaxToolCalls
  /\ toolCalls' = toolCalls + 1
  /\ IF engine \notin EngineNames \/ engine = engine_name
       THEN UNCHANGED <<engine_name, context_limit, fixed_tokens, chat, pc, loc>>
       ELSE /\ engine_name' = engine
            /\ context_limit' = PROVIDERS[engine].context_limit
            /\ chat' = IF PROVIDERS[engine].provider = "google" THEN NewChat ELSE chat
            /\ fixed_tokens' = FixedTokensSwitch
            /\ loc' = [loc EXCEPT ![t].caller = "switch"]
            /\ pc' = [pc EXCEPT ![t] = "mc_summary"]
  /\ UNCHANGED <<messages, nextId, clock, summary, total_exchanges, compactions,
                 turns, bus, events, nextEvt>>
  /\ UNCHANGED <<storeVars, hubVars, outerVars>>
  /\ was_below' = (was_below \/ Below(fixed_tokens', summary', messages', context_limit'))

\* the reply without tool calls: its text is the answer ("No response"
\* stands in for an empty one, except in the OpenAI adapter)
ProviderAnswer(t) ==
  /\ pc[t] = "loop"
  /\ \E len \in AnswerLens :
       /\ len = 0 => loc[t].via = "openai"
       /\ loc' = [loc EXCEPT ![t].answerLen = len]
  /\ pc' = [pc EXCEPT ![t] = "asst_stamp"]
  /\ UNCHANGED <<messages, nextId, clock, summary, total_exchanges, compactions,
                 engine_name, fixed_tokens, chat, turns, bus, events, nextEvt, toolCalls>>
  /\ UNCHANGED <<storeVars, hubVars, outerVars, context_limit, was_below>>

SendStampAssistant(t) == StampMessage(t, "asst_stamp", "asst_insert")

SendAddAssistant(t) ==
  InsertMessage(t, "asst_insert", "read_state", "assistant", loc[t].answerLen)

\* repo.update_conversation_state(self.project_id, increment_exchanges=True),
\* first half: the session loads the conversation_state row
SendReadState(t) ==
  /\ pc[t] = "read_state"
  /\ loc' = [loc EXCEPT ![t].exchanges = total_exchanges]
  /\ pc' = [pc EXCEPT ![t] = "bump"]
  /\ UNCHANGED <<messages, nextId, clock, summary, total_exchanges, compactions,
                 engine_name, fixed_tokens, chat, turns, bus, events, nextEvt, toolCalls>>
  /\ UNCHANGED <<storeVars, hubVars, outerVars, context_limit, was_below>>

\* update_conversation_state, second half: state.total_exchanges =
\* (state.total_exchanges or 0) + 1 on the row as loaded, then the flush and
\* the commit write that number
SendBump(t) ==
  /\ pc[t] = "bump"
  /\ total_exchanges' = loc[t].exchanges + 1
  /\ loc' = [loc EXCEPT ![t].exchanges = 0]
  /\ pc' = [pc EXCEPT ![t] = "returned"]
  /\ UNCHANGED <<messages, nextId, clock, summary, compactions,
                 engine_name, fixed_tokens, chat, turns, bus, events, nextEvt, toolCalls>>
  /\ UNCHANGED <<storeVars, hubVars, outerVars, context_limit, was_below>>

(***************************************************************************)
(* After send                                                              *)
(***************************************************************************)
\* _handle_message: if response: sendblue_send (which may raise), then
\* emit_message("assistant", response)
WebReturn(t) ==
  /\ t = "web"
  /\ pc[t] = "returned"
  /\ \E sent \in BOOLEAN :
       bus' = IF loc[t].answerLen > 0 /\ sent
                THEN Append(bus, Ev("message", "assistant", loc[t].turn))
                ELSE bus
  /\ pc' = [pc EXCEPT ![t] = "idle"]
  /\ loc' = [loc EXCEPT ![t] = [InitLoc EXCEPT !.turn = loc[t].turn]]
  /\ UNCHANGED <<messages, nextId, clock, summary, total_exchanges, compactions,
                 engine_name, fixed_tokens, chat, turns, events, nextEvt, toolCalls>>
  /\ UNCHANGED <<storeVars, hubVars, outerVars, context_limit, was_below>>

\* _heartbeat_loop after send returned
HeartbeatReturn(t) ==
  /\ t = "hb"
  /\ pc[t] = "returned"
  /\ pc' = [pc EXCEPT ![t] = "idle"]
  /\ loc' = [loc EXCEPT ![t] = [InitLoc EXCEPT !.turn = loc[t].turn]]
  /\ UNCHANGED <<messages, nextId, clock, summary, total_exchanges, compactions,
                 engine_name, fixed_tokens, chat, turns, bus, events, nextEvt, toolCalls>>
  /\ UNCHANGED <<storeVars, hubVars, outerVars, context_limit, was_below>>

\* the except clauses of _handle_message and _heartbeat_loop
TurnRaised(t) ==
  /\ pc[t] = "raised"
  /\ pc' = [pc EXCEPT ![t] = "idle"]
  /\ loc' = [loc EXCEPT ![t] = [InitLoc EXCEPT !.turn = loc[t].turn]]
  /\ UNCHANGED <<messages, nextId, clock, summary, total_exchanges, compactions,
                 engine_name, fixed_tokens, chat, turns, bus, events, nextEvt, toolCalls>>
  /\ UNCHANGED <<storeVars, hubVars, outerVars, context_limit, was_below>>

(***************************************************************************)
(* The conversation: two threads sharing one Conversation and one store    *)
(***************************************************************************)
\* the first midnight
StartOfDay == 0

\* the heartbeat loop between two passes; started is the time at which the
\* loop last called conversation.send, -1 before the first call
NoBeat ==
  [pc |-> "wait", n |-> 0, mode |-> "none", should_message |-> FALSE,
   boredom_streak |-> 0, target |-> <<>>, started |-> -1]

\* no request has come in
NoRequest ==
  [n |-> 0, accepted |-> 0, from_number |-> "", content |-> "", media_url |-> "",
   status |-> "none", reason |-> ""]

\* the webhook right after start-up
InitWeb ==
  /\ hook = NoRequest
  /\ tasks = <<>>
  /\ running = 0

\* no send_message of a provider is running
NoToolRun ==
  [provider |-> "none", pc |-> "idle", pending |-> 0, requests |-> 0,
   call |-> [func_name |-> "", outcome |-> "", detail |-> ""], results |-> <<>>]

InitTools == toolrun = NoToolRun

\* pass1.json as the ingest left it
Pass1 ==
  [torn |-> FALSE, sheet_reflection |-> "r0", index |-> {}, cross_references |-> <<>>]

\* pass2.json of the region as the ingest left it
Pass2 == [torn |-> FALSE, content_markdown |-> "c0"]

\* a caller that is not inside update_knowledge
NotUpdating ==
  [pc |-> "idle", branch |-> "none", field |-> "", value |-> "", data |-> Pass1,
   ret |-> "none"]

\* the knowledge store as the loader read it from the files
InitKnow ==
  /\ ks_file = [pass1 |-> Pass1, pass2 |-> Pass2, writes |-> 0]
  /\ ks_page = [sheet_reflection |-> Pass1.sheet_reflection, index |-> Pass1.index,
                cross_references |-> Pass1.cross_references,
                content_markdown |-> Pass2.content_markdown]
  /\ upd = [c \in Threads |-> NotUpdating]

\* add_highlight: the bboxes column starts as "[]"
InitBox == hbox = [src |-> "none", passed |-> <<>>, stored |-> <<>>]

\* no schedule event yet
InitSched == sched = <<>>

\* two projects made by get_or_create_project, with no rows yet
InitProj ==
  db = [projects |-> {"p1", "p2"}, workspaces |-> {}, workspace_pages |-> {},
        workspace_notes |-> {}, workspace_highlights |-> {},
        schedule_events |-> {}, messages |-> {}, conversation_state |-> {},
        n |-> 0, gone |-> {}]

\* the processes that share the learning_queue directory
Procs == {"a", "b"}

\* no worker.lock file
NoLock == "none"

\* a process that has not touched the queue module: _LOCK_FD is None, no
\* worker thread, no atexit hook
FreshProc ==
  [fd |-> FALSE, worker |-> "none", path |-> <<>>, serial |-> 0,
   atexit |-> FALSE]

\* empty queue directories, no lock file
InitQueue ==
  /\ jobs = [pending |-> {}, processing |-> {}, done |-> {}, n |-> 0,
             recovered |-> {}, stops |-> 0]
  /\ lock = NoLock
  /\ lw = [p \in Procs |-> FreshProc]

InitLate ==
  /\ InitSched
  /\ InitProj
  /\ InitQueue

\* no decide_heartbeat_mode call is being made
NoInputs == [schedule_events |-> <<>>, workspaces |-> <<>>, gaps |-> <<>>]

\* the scheduler and the outbound sender right after start-up
InitOuter ==
  /\ now = StartOfDay
  /\ hb_state = default_state
  /\ beat = NoBeat
  /\ outbox = <<>>
  /\ gathered = NoInputs
  /\ InitWeb
  /\ InitTools
  /\ InitKnow
  /\ InitBox
  /\ InitLate

Init ==
  /\ messages \in PreloadStores
  /\ nextId = Len(messages) + 1
  /\ clock = Len(messages) + 2
  /\ summary = EmptySummary
  /\ total_exchanges = Len(messages) \div 2
  /\ compactions = 0
  /\ engine_name \in InitEngines
  /\ fixed_tokens = FixedTokensInit
  /\ chat = NoChat
  /\ pc = [t \in Threads |-> "idle"]
  /\ loc = [t \in Threads |-> InitLoc]
  /\ turns = 0
  /\ bus = <<>>
  /\ events = <<>>
  /\ nextEvt = 1
  /\ toolCalls = 0
  /\ workspaces = <<>>
  /\ pages = <<>>
  /\ notes = <<>>
  /\ highlights = <<>>
  /\ nextHl = 1
  /\ worker = <<>>
  /\ context_limit = PROVIDERS[engine_name].context_limit
  /\ was_below = BelowThreshold
  /\ creating = [c \in Threads |-> NotCreating]
  /\ adding = [c \in Threads |-> NotAdding]
  /\ answer = NoAnswer
  /\ clients = {}
  /\ sock = [ws \in Sockets |-> "new"]
  /\ bc = NoBroadcast
  /\ got = [ws \in Sockets |-> {}]
  /\ ret = NoCall
  /\ InitOuter

Next ==
  \/ \E t \in Threads : HandleMessage(t)
  \/ \E t \in Threads : HeartbeatTick(t)
  \/ \E t \in Threads : SendStampUser(t)
  \/ \E t \in Threads : SendAddUser(t)
  \/ \E t \in Threads : CompactReadSummary(t)
  \/ \E t \in Threads : CompactReadMessages(t)
  \/ \E t \in Threads : CompactReadRows(t)
  \/ \E t \in Threads : CompactSummarize(t)
  \/ \E t \in Threads : CompactDelete(t)
  \/ \E t \in Threads : CompactUpdate(t)
  \/ \E t \in Threads : BuildReadSummary(t)
  \/ \E t \in Threads : BuildReadMessages(t)
  \/ \E t \in Threads : ProviderRequest(t)
  \/ \E t \in Threads : ProviderError(t)
  \/ \E t \in Threads : ToolAddEvent(t)
  \/ \E t \in Threads, engine \in EngineArgs : SwitchEngine(t, engine)
  \/ \E t \in Threads : ProviderAnswer(t)
  \/ \E t \in Threads : SendStampAssistant(t)
  \/ \E t \in Threads : SendAddAssistant(t)
  \/ \E t \in Threads : SendReadState(t)
  \/ \E t \in Threads : SendBump(t)
  \/ \E t \in Threads : WebReturn(t)
  \/ \E t \in Threads : HeartbeatReturn(t)
  \/ \E t \in Threads : TurnRaised(t)

vars == <<messages, nextId, clock, summary, total_exchanges, compactions,
          engine_name, fixed_tokens, chat, pc, loc, turns, bus, events, nextEvt,
          toolCalls, workspaces, pages, notes, highlights, nextHl, worker,
          was_below, context_limit, creating, adding, answer, clients, sock, bc, got, ret, now, hb_state,
          beat, outbox, gathered, hook, tasks, running,
          toolrun, ks_file, ks_page, upd, hbox, sched, db, jobs, lock, lw>>

Spec == Init /\ [][Next]_vars

(***************************************************************************)
(* Workspaces, schedule and highlights (repository.py, tools/vision.py)    *)
(***************************************************************************)
\* notes added in a run
MaxNotes == 1

\* schedule events added in a run
MaxEvents == 1

\* highlights spawned in a run
MaxHighlights == 1

Slugs == {"ws1"}

PageNames == {"A101"}

\* descriptions after strip()
Descriptions == {"", "d"}

Titles == {"t1", "t2"}

\* the title and description a create_workspace call is given
WorkspaceArgs ==
  { [title |-> "w1", description |-> "d1"], [title |-> "w2", description |-> "d2"] }

\* bbox payloads, by their number of boxes; the worker never passes 0
BoxCounts == {0, 1}

\* add_highlight: the row it inserts
PendingHighlight(slug, page_name) ==
  [slug |-> slug, page |-> page_name, status |-> "pending", bboxes |-> 0]

\* complete_highlight: unknown id leaves the table alone
complete_highlight(hls, highlight_id, bboxes) ==
  IF highlight_id \notin DOMAIN hls THEN hls
  ELSE [hls EXCEPT ![highlight_id].status = "complete",
                   ![highlight_id].bboxes = bboxes]

\* a fail_highlight that also empties the boxes
fail_highlight_clearing(hls, highlight_id) ==
  IF highlight_id \notin DOMAIN hls THEN hls
  ELSE [hls EXCEPT ![highlight_id].status = "failed", ![highlight_id].bboxes = 0]

\* fail_highlight: unknown id leaves the table alone
fail_highlight(hls, highlight_id) ==
  IF highlight_id \notin DOMAIN hls THEN hls
  ELSE [hls EXCEPT ![highlight_id].status = "failed"]

\* Workspace(project_id, slug, title, description): status defaults to active
WorkspaceRow(slug, title, description) ==
  [slug |-> slug, title |-> title, description |-> description, status |-> "active"]

\* what create_workspace returns, with what it was asked
WorkspaceAnswer(slug, title, description, how, w) ==
  [fn |-> "create_workspace", asked |-> WorkspaceRow(slug, title, description),
   how |-> how, ret |-> w]

\* what add_page returns, with what it was asked
PageAnswer(slug, page_name, how) ==
  [fn |-> "add_page",
   asked |-> [slug |-> slug, title |-> page_name, description |-> "", status |-> ""],
   how |-> how, ret |-> NoRow]

\* a create_workspace that brings an existing row up to its arguments
CreateWorkspaceQueryUpsert(c, slug, title, description) ==
  /\ creating[c].pc = "idle"
  /\ IF has_workspace(workspaces, slug)
       THEN /\ workspaces' = [i \in 1..Len(workspaces) |->
                                IF workspaces[i].slug = slug
                                  THEN WorkspaceRow(slug, title, description)
                                  ELSE workspaces[i]]
            /\ answer' = WorkspaceAnswer(slug, title, description, "existing",
                                         WorkspaceRow(slug, title, description))
            /\ UNCHANGED creating
       ELSE /\ creating' = [creating EXCEPT ![c] =
                  [pc |-> "insert", slug |-> slug, title |-> title,
                   description |-> description]]
            /\ UNCHANGED <<workspaces, answer>>
  /\ UNCHANGED <<pages, notes, highlights, nextHl, worker, events,
                 nextEvt, bus>>
  /\ UNCHANGED <<convVars, hubVars, outerVars, adding>>

\* create_workspace, first half: the SELECT by project and slug; an
\* existing row is returned as it is
CreateWorkspaceQuery(c, slug, title, description) ==
  /\ creating[c].pc = "idle"
  /\ IF has_workspace(workspaces, slug)
       THEN /\ \E existing \in workspace_rows(workspaces, slug) :
                 answer' = WorkspaceAnswer(slug, title, description, "existing",
                                           existing)
            /\ UNCHANGED creating
       ELSE /\ creating' = [creating EXCEPT ![c] =
                  [pc |-> "insert", slug |-> slug, title |-> title,
                   description |-> description]]
            /\ UNCHANGED answer
  /\ UNCHANGED <<workspaces, pages, notes, highlights, nextHl, worker, events,
                 nextEvt, bus>>
  /\ UNCHANGED <<convVars, hubVars, outerVars, adding>>

\* create_workspace, second half: no row was found, so s.add(w), flush,
\* _emit_ws and commit
CreateWorkspaceInsert(c) ==
  /\ creating[c].pc = "insert"
  /\ LET w == WorkspaceRow(creating[c].slug, creating[c].title,
                           creating[c].description)
     IN /\ workspaces' = Append(workspaces, w)
        /\ answer' = WorkspaceAnswer(w.slug, w.title, w.description, "created", w)
  /\ creating' = [creating EXCEPT ![c] = NotCreating]
  /\ notes' = Put(notes, creating[c].slug, 0)
  /\ bus' = emit_ws(bus, "workspace", Ev("workspace", "created", 0))
  /\ UNCHANGED <<pages, highlights, nextHl, worker, events, nextEvt>>
  /\ UNCHANGED <<convVars, hubVars, outerVars, adding>>

\* WorkspacePage(workspace_id, page_name, description="")
PageRow(slug, page_name, description) ==
  [slug |-> slug, page |-> page_name, description |-> description]

\* add_page, first half: the two SELECTs; without the workspace or with the
\* page already in it a str is returned
AddPageQuery(c, slug, page_name) ==
  /\ adding[c].pc = "idle"
  /\ IF ~has_workspace(workspaces, slug)
       THEN /\ answer' = PageAnswer(slug, page_name, "not found")
            /\ UNCHANGED adding
     ELSE IF has_page(pages, slug, page_name)
       THEN /\ answer' = PageAnswer(slug, page_name, "already")
            /\ UNCHANGED adding
       ELSE /\ adding' = [adding EXCEPT ![c] =
                            [pc |-> "insert", slug |-> slug, page |-> page_name]]
            /\ UNCHANGED answer
  /\ UNCHANGED <<workspaces, pages, notes, highlights, nextHl, worker, events,
                 nextEvt, bus>>
  /\ UNCHANGED <<convVars, hubVars, outerVars, creating>>

\* add_page, second half: s.add(page), flush, _emit_ws and commit
AddPageInsert(c) ==
  /\ adding[c].pc = "insert"
  /\ pages' = Append(pages, PageRow(adding[c].slug, adding[c].page, ""))
  /\ bus' = emit_ws(bus, "workspace", Ev("workspace", "page_added", 0))
  /\ answer' = PageAnswer(adding[c].slug, adding[c].page, "added")
  /\ adding' = [adding EXCEPT ![c] = NotAdding]
  /\ UNCHANGED <<workspaces, notes, highlights, nextHl, worker, events, nextEvt>>
  /\ UNCHANGED <<convVars, hubVars, outerVars, creating>>

\* remove_page: deletes the one row the query yields
RemovePage(slug, page_name) ==
  /\ IF ~has_workspace(workspaces, slug) \/ ~has_page(pages, slug, page_name)
       THEN UNCHANGED <<pages, bus>>
       ELSE /\ pages' = delete_row(pages, first_page(pages, slug, page_name))
            /\ bus' = emit_ws(bus, "workspace", Ev("workspace", "page_removed", 0))
  /\ UNCHANGED <<workspaces, notes, highlights, nextHl, worker, events, nextEvt>>
  /\ UNCHANGED <<convVars, hubVars, outerVars, creating, adding, answer>>

AddDescription(slug, page_name, description) ==
  /\ IF ~has_workspace(workspaces, slug) \/ ~has_page(pages, slug, page_name)
       THEN UNCHANGED <<pages, bus>>
       ELSE /\ pages' = [pages EXCEPT ![first_page(pages, slug, page_name)].description
                                        = description]
            /\ bus' = emit_ws(bus, "page_description_updated",
                              Ev("page_description_updated", description, 0))
  /\ UNCHANGED <<workspaces, notes, highlights, nextHl, worker, events, nextEvt>>
  /\ UNCHANGED <<convVars, hubVars, outerVars, creating, adding, answer>>

AddNote(slug) ==
  /\ \A w \in DOMAIN notes : notes[w] < MaxNotes
  /\ IF ~has_workspace(workspaces, slug)
       THEN UNCHANGED <<notes, bus>>
       ELSE /\ notes' = [notes EXCEPT ![slug] = @ + 1]
            /\ bus' = emit_ws(bus, "workspace", Ev("workspace", "note_added", 0))
  /\ UNCHANGED <<workspaces, pages, highlights, nextHl, worker, events, nextEvt>>
  /\ UNCHANGED <<convVars, hubVars, outerVars, creating, adding, answer>>

AddEvent(title) ==
  /\ nextEvt <= MaxEvents
  /\ events' = add_event(events, nextEvt, title)
  /\ nextEvt' = nextEvt + 1
  /\ bus' = emit_ws(bus, "schedule", Ev("schedule", "added", 0))
  /\ UNCHANGED <<workspaces, pages, notes, highlights, nextHl, worker>>
  /\ UNCHANGED <<convVars, hubVars, outerVars, creating, adding, answer>>

UpdateEvent(event_id, title) ==
  /\ IF event_id \notin DOMAIN events
       THEN UNCHANGED <<events, bus>>
       ELSE /\ events' = Put(events, event_id, title)
            /\ bus' = emit_ws(bus, "schedule", Ev("schedule", "updated", 0))
  /\ UNCHANGED <<workspaces, pages, notes, highlights, nextHl, worker, nextEvt>>
  /\ UNCHANGED <<convVars, hubVars, outerVars, creating, adding, answer>>

RemoveEvent(event_id) ==
  /\ IF event_id \notin DOMAIN events
       THEN UNCHANGED <<events, bus>>
       ELSE /\ events' = Drop(events, event_id)
            /\ bus' = emit_ws(bus, "schedule", Ev("schedule", "removed", 0))
  /\ UNCHANGED <<workspaces, pages, notes, highlights, nextHl, worker, nextEvt>>
  /\ UNCHANGED <<convVars, hubVars, outerVars, creating, adding, answer>>

\* the keyword arguments spawn_highlights and _run_highlight_agent pass
StartedKwargs == {"workspace_slug", "page_name", "highlight_id", "mission"}

CompleteKwargs == {"workspace_slug", "page_name", "highlight_id", "mission", "bboxes"}

FailedKwargs == {"workspace_slug", "page_name", "highlight_id"}

\* spawn_highlights for one {page_name, mission}: resolve the page in the
\* workspace and in the loaded project, add_highlight, emit, start the worker
SpawnHighlight(slug, page_name) ==
  /\ nextHl <= MaxHighlights
  /\ \E in_project \in BOOLEAN :
       IF ~has_workspace(workspaces, slug) \/ ~has_page(pages, slug, page_name)
          \/ ~in_project
         THEN UNCHANGED <<highlights, nextHl, worker, bus>>
         ELSE /\ highlights' = Put(highlights, nextHl, PendingHighlight(slug, page_name))
              /\ nextHl' = nextHl + 1
              /\ bus' = call_ws(bus, "emit_page_highlight_started", StartedKwargs,
                                Ev("workspace", "page_highlight_started", 0))
              /\ worker' = Put(worker, nextHl, [pc |-> "vision", bboxes |-> 0])
  /\ UNCHANGED <<workspaces, pages, notes, events, nextEvt>>
  /\ UNCHANGED <<convVars, hubVars, outerVars, creating, adding, answer>>

\* _run_highlight_agent up to complete_highlight: the image is missing, the
\* vision model raises or no box is found (0), or some boxes are found
WorkerVision(id) ==
  /\ id \in DOMAIN worker
  /\ worker[id].pc = "vision"
  /\ \E found \in BoxCounts :
       worker' = [worker EXCEPT ![id] =
                    IF found = 0 THEN [pc |-> "fail", bboxes |-> 0]
                                 ELSE [pc |-> "complete", bboxes |-> found]]
  /\ UNCHANGED <<workspaces, pages, notes, highlights, nextHl, events, nextEvt, bus>>
  /\ UNCHANGED <<convVars, hubVars, outerVars, creating, adding, answer>>

\* completed = repo.complete_highlight(...): the store raises, or the row is
\* gone (a str comes back, RuntimeError), or the row is written and the
\* event emitted
WorkerComplete(id) ==
  /\ id \in DOMAIN worker
  /\ worker[id].pc = "complete"
  /\ \E store_ok \in BOOLEAN :
       IF ~store_ok \/ id \notin DOMAIN highlights
         THEN /\ worker' = [worker EXCEPT ![id].pc = "fail"]
              /\ UNCHANGED <<highlights, bus>>
         ELSE /\ highlights' = complete_highlight(highlights, id, worker[id].bboxes)
              /\ bus' = call_ws(bus, "emit_page_highlight_complete", CompleteKwargs,
                                Ev("workspace", "page_highlight_complete", 0))
              /\ worker' = [worker EXCEPT ![id].pc = "done"]
  /\ UNCHANGED <<workspaces, pages, notes, nextHl, events, nextEvt>>
  /\ UNCHANGED <<convVars, hubVars, outerVars, creating, adding, answer>>

\* the except clause: repo.fail_highlight(highlight_id) outside any try (a
\* store error ends the thread), then the emit
WorkerFail(id) ==
  /\ id \in DOMAIN worker
  /\ worker[id].pc = "fail"
  /\ \E store_ok \in BOOLEAN :
       IF ~store_ok
         THEN /\ worker' = [worker EXCEPT ![id].pc = "died"]
              /\ UNCHANGED <<highlights, bus>>
         ELSE /\ highlights' = fail_highlight(highlights, id)
              /\ bus' = call_ws(bus, "emit_page_highlight_failed", FailedKwargs,
                                Ev("workspace", "page_highlight_failed", 0))
              /\ worker' = [worker EXCEPT ![id].pc = "done"]
  /\ UNCHANGED <<workspaces, pages, notes, nextHl, events, nextEvt>>
  /\ UNCHANGED <<convVars, hubVars, outerVars, creating, adding, answer>>

\* repo.complete_highlight called by a client of the repository
CompleteHighlight(id, bboxes) ==
  /\ highlights' = complete_highlight(highlights, id, bboxes)
  /\ UNCHANGED <<workspaces, pages, notes, nextHl, worker, events, nextEvt, bus>>
  /\ UNCHANGED <<convVars, hubVars, outerVars, creating, adding, answer>>

\* repo.fail_highlight called by a client of the repository
FailHighlight(id) ==
  /\ highlights' = fail_highlight(highlights, id)
  /\ UNCHANGED <<workspaces, pages, notes, nextHl, worker, events, nextEvt, bus>>
  /\ UNCHANGED <<convVars, hubVars, outerVars, creating, adding, answer>>

RemoveHighlight(slug, page_name, id) ==
  /\ IF ~has_workspace(workspaces, slug) \/ ~has_page(pages, slug, page_name)
        \/ id \notin DOMAIN highlights
        \/ (id \in DOMAIN highlights /\ highlights[id].page # page_name)
       THEN UNCHANGED <<highlights, bus>>
       ELSE /\ highlights' = Drop(highlights, id)
            /\ bus' = emit_ws(bus, "workspace", Ev("workspace", "highlight_removed", 0))
  /\ UNCHANGED <<workspaces, pages, notes, nextHl, worker, events, nextEvt>>
  /\ UNCHANGED <<convVars, hubVars, outerVars, creating, adding, answer>>

(***************************************************************************)
(* The store: clients of the repository and the highlight workers          *)
(***************************************************************************)
HighlightIds == 1..MaxHighlights

EventIds == 1..MaxEvents

\* the tables, the conversation and the hub right after start-up
InitCore ==
  /\ messages = <<>>
  /\ nextId = 1
  /\ clock = 1
  /\ summary = EmptySummary
  /\ total_exchanges = 0
  /\ compactions = 0
  /\ engine_name = DEFAULT
  /\ fixed_tokens = FixedTokensInit
  /\ chat = NoChat
  /\ pc = [t \in Threads |-> "idle"]
  /\ loc = [t \in Threads |-> InitLoc]
  /\ turns = 0
  /\ bus = <<>>
  /\ events = <<>>
  /\ nextEvt = 1
  /\ toolCalls = 0
  /\ workspaces = <<>>
  /\ pages = <<>>
  /\ notes = <<>>
  /\ highlights = <<>>
  /\ nextHl = 1
  /\ worker = <<>>
  /\ context_limit = PROVIDERS[engine_name].context_limit
  /\ was_below = BelowThreshold
  /\ creating = [c \in Threads |-> NotCreating]
  /\ adding = [c \in Threads |-> NotAdding]
  /\ answer = NoAnswer
  /\ clients = {}
  /\ sock = [ws \in Sockets |-> "new"]
  /\ bc = NoBroadcast
  /\ got = [ws \in Sockets |-> {}]
  /\ ret = NoCall

InitStore == InitCore /\ InitOuter

NextStore ==
  \/ \E c \in Threads, slug \in Slugs, a \in WorkspaceArgs :
       CreateWorkspaceQuery(c, slug, a.title, a.description)
  \/ \E c \in Threads : CreateWorkspaceInsert(c)
  \/ \E c \in Threads, slug \in Slugs, page_name \in PageNames :
       AddPageQuery(c, slug, page_name)
  \/ \E c \in Threads : AddPageInsert(c)
  \/ \E slug \in Slugs, page_name \in PageNames : RemovePage(slug, page_name)
  \/ \E slug \in Slugs, page_name \in PageNames, d \in Descriptions :
       AddDescription(slug, page_name, d)
  \/ \E slug \in Slugs : AddNote(slug)
  \/ \E title \in Titles : AddEvent(title)
  \/ \E event_id \in EventIds, title \in Titles : UpdateEvent(event_id, title)
  \/ \E event_id \in EventIds : RemoveEvent(event_id)
  \/ \E slug \in Slugs, page_name \in PageNames : SpawnHighlight(slug, page_name)
  \/ \E id \in HighlightIds : WorkerVision(id)
  \/ \E id \in HighlightIds : WorkerComplete(id)
  \/ \E id \in HighlightIds : WorkerFail(id)
  \/ \E id \in HighlightIds, bboxes \in BoxCounts : CompleteHighlight(id, bboxes)
  \/ \E id \in HighlightIds : FailHighlight(id)
  \/ \E slug \in Slugs, page_name \in PageNames, id \in HighlightIds :
       RemoveHighlight(slug, page_name, id)

SpecStore == InitStore /\ [][NextStore]_vars

(***************************************************************************)
(* The WebSocket hub (api/websocket.py), and add_message called on its own *)
(***************************************************************************)
MaxBroadcasts == 2

MaxAdds == 2

\* emit_message(role, content, message_id): the event with its message id
MessageEv(role, message_id) ==
  [type |-> "message", role |-> role, turn |-> 0, message_id |-> message_id]

\* add_message as one transaction: flush (the stamp and the id), _emit_ws,
\* then the commit of get_session, which the database may refuse: rollback,
\* and the exception leaves add_message
AddMessage(role) ==
  /\ clock <= MaxAdds
  /\ clock' = clock + 1
  /\ bus' = emit_ws(bus, "message", MessageEv(role, nextId))
  /\ \E db_ok \in BOOLEAN :
       LET ok == db_ok /\ ~emit_ws_raises("message")
       IN /\ messages' = IF ok
                           THEN Append(messages, [id |-> nextId, role |-> role,
                                                  len |-> SmallLen, created_at |-> clock])
                           ELSE messages
          /\ nextId' = IF ok THEN nextId + 1 ELSE nextId
          /\ ret' = [id |-> IF ok THEN nextId ELSE 0, db_ok |-> db_ok, raised |-> ~ok]
  /\ UNCHANGED <<summary, total_exchanges, compactions, engine_name, fixed_tokens,
                 chat, pc, loc, turns, toolCalls, was_below, context_limit,
                 events, nextEvt, clients, sock, bc, got>>
  /\ UNCHANGED <<storeVars, outerVars>>

\* websocket_endpoint up to its receive loop: accept, _clients.add(ws)
WsConnect(ws) ==
  /\ sock[ws] = "new"
  /\ sock' = [sock EXCEPT ![ws] = "open"]
  /\ clients' = clients \cup {ws}
  /\ UNCHANGED <<bc, got, ret, bus, events, nextEvt>>
  /\ UNCHANGED <<convVars, storeVars, outerVars>>

\* the peer of an open connection goes away: sends to it fail from now on,
\* its endpoint is still waiting in receive_text
WsPeerLost(ws) ==
  /\ sock[ws] = "open"
  /\ sock' = [sock EXCEPT ![ws] = "lost"]
  /\ UNCHANGED <<clients, bc, got, ret, bus, events, nextEvt>>
  /\ UNCHANGED <<convVars, storeVars, outerVars>>

\* receive_text raises in the endpoint: finally _clients.discard(ws)
WsDisconnect(ws) ==
  /\ sock[ws] \in {"open", "lost"}
  /\ sock' = [sock EXCEPT ![ws] = "closed"]
  /\ clients' = clients \ {ws}
  /\ UNCHANGED <<bc, got, ret, bus, events, nextEvt>>
  /\ UNCHANGED <<convVars, storeVars, outerVars>>

\* broadcast(event) starts on the loop: return if there are no clients,
\* else dead = [], the iterator over _clients is made and gives the first
\* client, which is sent the event; no other coroutine runs before the
\* await of that send
BroadcastStart ==
  /\ bc.pc # "iter"
  /\ bc.ev < MaxBroadcasts
  /\ IF clients = {}
       THEN /\ bc' = [pc |-> "done", ev |-> bc.ev + 1, size |-> 0, seen |-> {},
                      dead |-> {}, at_start |-> {}]
            /\ UNCHANGED got
       ELSE \E ws \in clients :
              /\ bc' = [pc |-> "iter", ev |-> bc.ev + 1, size |-> Cardinality(clients),
                        seen |-> {ws},
                        dead |-> IF sock[ws] = "open" THEN {} ELSE {ws},
                        at_start |-> clients]
              /\ got' = IF sock[ws] = "open"
                          THEN [got EXCEPT ![ws] = @ \cup {bc.ev + 1}]
                          ELSE got
  /\ UNCHANGED <<clients, sock, ret, bus, events, nextEvt>>
  /\ UNCHANGED <<convVars, storeVars, outerVars>>

\* the send being awaited ends and "for ws in _clients" takes its next
\* turn: the set iterator raises RuntimeError when the size of the set has
\* changed since it was made, and the error leaves broadcast; else the
\* next client is sent the event (its await lets other coroutines run), a
\* failed send puts it on dead; when the iterator is exhausted the dead
\* are discarded
BroadcastStep ==
  /\ bc.pc = "iter"
  /\ IF Cardinality(clients) # bc.size
       THEN /\ bc' = [bc EXCEPT !.pc = "failed"]
            /\ UNCHANGED <<clients, got>>
       ELSE IF clients \subseteq bc.seen
         THEN /\ clients' = clients \ bc.dead
              /\ bc' = [bc EXCEPT !.pc = "done"]
              /\ UNCHANGED got
         ELSE \E ws \in clients \ bc.seen :
                /\ bc' = [bc EXCEPT !.seen = @ \cup {ws},
                                    !.dead = IF sock[ws] = "open" THEN @ ELSE @ \cup {ws}]
                /\ got' = IF sock[ws] = "open"
                            THEN [got EXCEPT ![ws] = @ \cup {bc.ev}]
                            ELSE got
                /\ UNCHANGED clients
  /\ UNCHANGED <<sock, ret, bus, events, nextEvt>>
  /\ UNCHANGED <<convVars, storeVars, outerVars>>

InitHub == InitStore

NextHub ==
  \/ \E role \in {"user", "assistant"} : AddMessage(role)
  \/ \E ws \in Sockets : WsConnect(ws)
  \/ \E ws \in Sockets : WsPeerLost(ws)
  \/ \E ws \in Sockets : WsDisconnect(ws)
  \/ BroadcastStart
  \/ BroadcastStep

SpecHub == InitHub /\ [][NextHub]_vars

(***************************************************************************)
(* A Conversation driven the way a test drives it: a preloaded store, a    *)
(* context limit set on the object, and the web caller alone               *)
(***************************************************************************)
ScenarioPreloads == {KEEP_RECENT, 100}

ScenarioChars == {400, 1200}

ScenarioLimits == {40000, 128000}

InitScenario ==
  /\ \E n \in ScenarioPreloads, chars \in ScenarioChars :
       messages = Preload(n, chars, 0)
  /\ nextId = Len(messages) + 1
  /\ clock = Len(messages) + 2
  /\ summary = EmptySummary
  /\ total_exchanges = Len(messages) \div 2
  /\ compactions = 0
  /\ engine_name = DEFAULT
  /\ fixed_tokens = FixedTokensInit
  /\ chat = NoChat
  /\ pc = [t \in Threads |-> "idle"]
  /\ loc = [t \in Threads |-> InitLoc]
  /\ turns = 0
  /\ bus = <<>>
  /\ events = <<>>
  /\ nextEvt = 1
  /\ toolCalls = 0
  /\ workspaces = <<>>
  /\ pages = <<>>
  /\ notes = <<>>
  /\ highlights = <<>>
  /\ nextHl = 1
  /\ worker = <<>>
  /\ context_limit \in ScenarioLimits
  /\ was_below = BelowThreshold
  /\ creating = [c \in Threads |-> NotCreating]
  /\ adding = [c \in Threads |-> NotAdding]
  /\ answer = NoAnswer
  /\ clients = {}
  /\ sock = [ws \in Sockets |-> "new"]
  /\ bc = NoBroadcast
  /\ got = [ws \in Sockets |-> {}]
  /\ ret = NoCall
  /\ InitOuter

NextScenario ==
  \/ HandleMessage("web")
  \/ SendStampUser("web")
  \/ SendAddUser("web")
  \/ CompactReadSummary("web")
  \/ CompactReadMessages("web")
  \/ CompactReadRows("web")
  \/ CompactSummarize("web")
  \/ CompactDelete("web")
  \/ CompactUpdate("web")
  \/ BuildReadSummary("web")
  \/ BuildReadMessages("web")
  \/ ProviderRequest("web")
  \/ ProviderAnswer("web")
  \/ SendStampAssistant("web")
  \/ SendAddAssistant("web")
  \/ SendReadState("web")
  \/ SendBump("web")
  \/ WebReturn("web")

SpecScenario == InitScenario /\ [][NextScenario]_vars

(***************************************************************************)
(* Properties                                                              *)
(***************************************************************************)
\* thread t is executing Conversation.send (switch_engine and
\* _maybe_compact run inside it)
InSend(t) == pc[t] \notin {"idle", "send", "returned", "raised"}

\* the step is one of thread t
Moves(t) == pc'[t] # pc[t] \/ (toolCalls' # toolCalls /\ pc[t] = "loop")

\* C1: at most one turn is in progress on the Conversation: no two threads
\* are inside Conversation.send (with its switch_engine and compaction) at
\* the same time
C1_OneTurnAtATime ==
  \A t, u \in Threads : t # u => ~(InSend(t) /\ InSend(u))

\* ids the messages table has handed out and no longer holds
Deleted == (1..(nextId - 1)) \ Ids(messages)

\* C2: compaction commits atomically: whenever rows are gone from the
\* messages table, the stored summary is the one written for them
C2_DeletedRowsAreSummarized == Deleted \subseteq summary.src

\* the n largest ids of a table
Largest(rows, n) ==
  {i \in Ids(rows) : Cardinality({j \in Ids(rows) : j > i}) < n}

\* C3: every compaction preserves the KEEP_RECENT most recent messages by
\* id: the delete step of _maybe_compact leaves at least min(KEEP_RECENT,
\* count before) rows and every one of the KEEP_RECENT largest ids
C3_CompactionKeepsRecent ==
  [][\A t \in Threads :
       (pc[t] = "mc_delete" /\ pc'[t] = "mc_update") =>
         /\ count_messages(messages') >= Min(KEEP_RECENT, count_messages(messages))
         /\ Largest(messages, KEEP_RECENT) \subseteq Ids(messages')]_vars

\* C3, how the store gets there: two overlapping add_message calls have
\* left a row with a larger id and a smaller created_at than another
C3_StampsOutOfOrder ==
  /\ Len(messages) <= 2 * MaxTurns
  /\ \E i, j \in 1..Len(messages) :
       messages[i].id < messages[j].id /\ messages[i].created_at > messages[j].created_at

\* the event types tools and compaction produce
ToolEventTypes ==
  { "workspace", "schedule", "page_description_updated", "compaction",
    "engine_switch" }

OnBus(e) == \E i \in 1..Len(bus) : bus[i] = e

Usage(s, msgs) ==
  fixed_tokens + estimate_tokens(s.len) + estimate_messages_tokens(msgs)

\* C8: once _maybe_compact has run at the top of a send, the estimated
\* usage of what is stored (and about to be sent) is within the engine's
\* context limit
C8_UsageWithinContextLimit ==
  \A t \in Threads :
    pc[t] = "build_summary" => Usage(summary, get_messages(messages)) <= context_limit

\* thread t takes a step of switch_engine (its _maybe_compact included)
SwitchStep(t) ==
  /\ Moves(t)
  /\ \/ loc[t].caller = "switch"
     \/ loc'[t].caller = "switch"
     \/ (pc[t] = "loop" /\ pc'[t] = "loop" /\ engine_name' = engine_name
           /\ events' = events)

C10_RequestCarriesHistory ==
  \A t \in Threads :
    pc[t] = "provider" => Request(t) = StatelessRequest(loc[t])

\* ids of the highlights a step keeps
Kept == DOMAIN highlights \cap DOMAIN highlights'

\* C4 as stated: a row is created pending with no boxes, and once it is
\* complete or failed no step changes its status or its bboxes
C4_TerminalRowsFrozen ==
  [][/\ \A id \in DOMAIN highlights' \ DOMAIN highlights :
          highlights'[id].status = "pending" /\ highlights'[id].bboxes = 0
     /\ \A id \in Kept :
          highlights[id].status \in {"complete", "failed"} =>
            /\ highlights'[id].status = highlights[id].status
            /\ highlights'[id].bboxes = highlights[id].bboxes]_vars

\* C4: a row is created pending with no boxes; complete_highlight and
\* fail_highlight write whatever the status is, so a row never goes back to
\* pending, its status only changes to complete or failed, and its bboxes
\* only change as it is written complete
C4_NeverBackToPending ==
  [][/\ \A id \in DOMAIN highlights' \ DOMAIN highlights :
          highlights'[id].status = "pending" /\ highlights'[id].bboxes = 0
     /\ \A id \in Kept :
          /\ highlights'[id].status = "pending" => highlights'[id] = highlights[id]
          /\ highlights'[id].status # highlights[id].status =>
               highlights'[id].status \in {"complete", "failed"}
          /\ highlights'[id].bboxes # highlights[id].bboxes =>
               highlights'[id].status = "complete"]_vars

\* C4, its case: a row written complete with boxes has then been written
\* failed
C4_CompleteThenFailed ==
  \E id \in DOMAIN highlights :
    highlights[id].status = "failed" /\ highlights[id].bboxes # 0

\* C5: the worker of a highlight ends by recording complete or failed, so a
\* row whose worker has ended is not pending
C5_EndedWorkerLeavesNoPending ==
  \A id \in DOMAIN worker :
    (worker[id].pc \in {"done", "died"} /\ id \in DOMAIN highlights) =>
      highlights[id].status # "pending"

\* a step in which one of the listed operations succeeded, seen by its
\* effect on the tables
Mutation ==
  \/ workspaces' # workspaces
  \/ pages' # pages
  \/ notes' # notes
  \/ events' # events
  \/ Len(messages') > Len(messages)
  \/ DOMAIN highlights' \ DOMAIN highlights = {} /\ highlights' # highlights

\* C6: every successful operation of the list puts at least one event on
\* the bus, and a step that changes no table puts none
C6_MutationsEmit ==
  [][/\ Mutation => Len(bus') > Len(bus)
     /\ <<workspaces, pages, notes, events, messages, highlights>>'
          = <<workspaces, pages, notes, events, messages, highlights>>
        => bus' = bus]_vars

\* C11: the summary incorporates all evicted content: every row a
\* compaction deletes is one of the old messages whose text went, with the
\* previous summary, to the summarizer (or the fallback) that produced the
\* summary this compaction writes, and the stored summary only changes by
\* being replaced with the summary a compaction produced
C11_EvictedRowsWereSummarized ==
  [][/\ \A t \in Threads :
          (pc[t] = "mc_delete" /\ pc'[t] = "mc_update") =>
            Ids(messages) \ Ids(messages') \subseteq loc[t].newSummary.src
     /\ summary' # summary =>
          \E t \in Threads :
            pc[t] = "mc_update" /\ Moves(t) /\ summary' = loc[t].newSummary]_vars

\* C12: when the store holds at most KEEP_RECENT messages as _maybe_compact
\* reads it, _maybe_compact returns at once whatever the estimated usage:
\* the step deletes no message and leaves summary, total_exchanges and
\* compactions as they were
C12_FewMessagesNoCompaction ==
  [][\A t \in Threads :
       (pc[t] \in {"mc_messages", "mc_rows"} /\ Moves(t)
          /\ count_messages(messages) <= KEEP_RECENT) =>
         /\ pc'[t] \in {"build_summary", "loop"}
         /\ messages' = messages
         /\ summary' = summary
         /\ total_exchanges' = total_exchanges
         /\ compactions' = compactions]_vars

\* C12, its case: _maybe_compact has just returned to send with the store
\* at or over the compaction threshold, at most KEEP_RECENT rows in it and
\* nothing ever compacted
C12_OverThresholdNotCompacted ==
  \E t \in Threads :
    /\ pc[t] = "build_summary"
    /\ count_messages(messages) <= KEEP_RECENT
    /\ needs_compaction(fixed_tokens, estimate_tokens(summary.len),
                        estimate_messages_tokens(get_messages(messages)),
                        context_limit)
    /\ compactions = 0
    /\ Deleted = {}

\* C13: a failing summarizer does not stop the compaction and does not
\* leave send: the except branch builds the fallback from the summary read
\* and the first FALLBACK_CHARS characters of the old text, the rows below
\* the cutoff are then deleted, and the fallback becomes the stored summary
\* as _maybe_compact returns
C13_SummarizerFailureFallsBack ==
  [][\A t \in Threads :
       /\ (pc[t] = "mc_summarize" /\ Moves(t)) =>
            /\ pc'[t] = "mc_delete"
            /\ loc'[t].fell_back =>
                 LET old == old_messages(loc[t].msgs)
                     old_len == messages_to_text(old)
                     existing == loc[t].summary
                 IN /\ loc'[t].newSummary.len =
                         (IF existing.len > 0
                            THEN existing.len + ADDITIONAL_MARK_LEN ELSE 0)
                         + Min(old_len, FALLBACK_CHARS)
                         + (IF old_len > FALLBACK_CHARS THEN TRUNC_MARK_LEN ELSE 0)
                    /\ loc'[t].newSummary.src = existing.src \cup Ids(old)
       /\ (pc[t] = "mc_delete" /\ Moves(t) /\ loc[t].fell_back) =>
            /\ pc'[t] = "mc_update"
            /\ \A m \in Ids(messages) : m \in Ids(messages') <=> m >= loc[t].cutoff
       /\ (pc[t] = "mc_update" /\ Moves(t) /\ loc[t].fell_back) =>
            /\ pc'[t] \in {"build_summary", "loop"}
            /\ summary' = loc[t].newSummary]_vars

\* C13, its case: a second compaction whose summarizer failed has
\* completed: the stored summary is the earlier summary with the marker
\* and the old text appended
C13_FallbackStored ==
  \E t \in Threads :
    /\ pc[t] = "build_summary"
    /\ compactions = 2
    /\ summary.len > SummaryLen + ADDITIONAL_MARK_LEN
    /\ Deleted # {}

\* C14 as stated: compaction is attempted at most once per threshold
\* crossing: the send a thread is in makes the summarizer call of a
\* compaction at most once, and once a compaction has completed the next
\* is only attempted after the usage test has come out below the threshold
\* in between
C14_OncePerThresholdCrossing ==
  [][\A t \in Threads :
       (pc[t] = "mc_rows" /\ pc'[t] = "mc_summarize") =>
         /\ ~loc[t].compacted
         /\ compactions > 0 => was_below]_vars

\* C14: no retry inside a call: one call of _maybe_compact (send makes one
\* before it builds the request, switch_engine one as it ends) performs at
\* most one compaction, that is one summarizer call, one delete and one
\* update, and returns; the usage test is made afresh by every call, so
\* the next call compacts again when the usage is still at the threshold
C14_OneCompactionPerCall ==
  [][\A t \in Threads :
       /\ (pc[t] = "mc_update" /\ Moves(t)) =>
            /\ pc'[t] \in {"build_summary", "loop"}
            /\ compactions' = compactions + 1
       /\ (pc'[t] = "mc_summary" /\ Moves(t)) => pc[t] \in {"add_user", "loop"}
       /\ (pc'[t] = "mc_summarize" /\ Moves(t)) => pc[t] = "mc_rows"
       /\ (pc'[t] = "mc_delete" /\ Moves(t)) => pc[t] = "mc_summarize"
       /\ (pc'[t] = "mc_update" /\ Moves(t)) => pc[t] = "mc_delete"
       /\ (compactions' # compactions /\ Moves(t)) => pc[t] = "mc_update"]_vars

\* C14, its case: one compaction has completed, the usage test has not
\* come out below the threshold since, and a thread is in the next one
C14_CompactsAgainWithoutDrop ==
  \E t \in Threads :
    /\ pc[t] = "mc_summarize"
    /\ \A u \in Threads \ {t} : pc[u] = "idle"
    /\ compactions = 1
    /\ ~was_below

\* the first send of a test-style run has returned: preloaded rows of chars
\* characters (n of them, the two rows of the send making nextId n + 3)
\* under the given context limit
ScenarioSent(n, chars, limit) ==
  /\ turns = 1
  /\ pc["web"] = "idle"
  /\ nextId = n + 3
  /\ messages[1].len = chars
  /\ context_limit = limit

\* C15 as stated (scenario S5): 100 preloaded messages of 400 characters,
\* a context limit of 40000 tokens and a fixed cost of FixedTokensInit
\* tokens; after one send 80 rows have been deleted, the summary is not
\* empty, 21 messages are stored and compactions is 1
C15_S5CompactsAtThreshold ==
  ScenarioSent(100, 400, 40000) =>
    /\ Cardinality(Deleted) = 80
    /\ summary.len > 0
    /\ count_messages(messages) = 21
    /\ compactions = 1

\* C15: with the inputs of S5 the estimate is 101 messages of 100 tokens
\* plus the fixed cost, under 0.65 of 40000, so the send does not compact:
\* no row is deleted, the summary stays empty, 102 messages are stored and
\* compactions is 0; with preloaded messages of 1200 characters the send
\* compacts before the request is built: the 101 stored rows less the
\* KEEP_RECENT kept, 81, are deleted, the summary is not empty, 21
\* messages are stored after the reply and compactions is 1
C15_S5BelowThreshold ==
  /\ ScenarioSent(100, 400, 40000) =>
       /\ Deleted = {}
       /\ summary = EmptySummary
       /\ count_messages(messages) = 102
       /\ compactions = 0
  /\ ScenarioSent(100, 1200, 40000) =>
       /\ Cardinality(Deleted) = 81
       /\ summary.len > 0
       /\ count_messages(messages) = 21
       /\ compactions = 1

\* C15, its case: the send of S5 has returned
C15_S5Sent == ScenarioSent(100, 400, 40000) /\ total_exchanges = 51

\* C16: creation time and id order agree: the row an add_message appends
\* has the largest id and no created_at below that of a row already
\* stored, so get_messages (ordered by created_at) returns it last, as a
\* read in id order does
C16_CreationOrderIsIdOrder ==
  [][Len(messages') > Len(messages) =>
       LET new == messages'[Len(messages')]
           read == get_messages(messages')
       IN /\ \A i \in 1..Len(messages) :
               /\ messages[i].id < new.id
               /\ messages[i].created_at <= new.created_at
          /\ read[Len(read)] = new]_vars

C19_DeadRemovedOthersServed ==
  /\ \A ws \in Sockets : sock[ws] \in {"new", "closed"} => ws \notin clients
  /\ bc.pc \in {"done", "failed"} =>
       /\ bc.dead \cap clients = {}
       /\ bc.dead # {} =>
            \A ws \in (bc.at_start \cap clients) \ bc.dead :
              sock[ws] = "open" => bc.ev \in got[ws]

\* C20: in every reachable state no two rows of workspaces share a slug,
\* also when create_workspace calls with the same slug overlap
C20_WorkspaceSlugsUnique ==
  \A i, j \in 1..Len(workspaces) : workspaces[i].slug = workspaces[j].slug => i = j

(***************************************************************************)
(* Workspaces and their pages under two callers                            *)
(***************************************************************************)
InitPages == InitStore

NextPages ==
  \/ \E c \in Threads, slug \in Slugs, a \in WorkspaceArgs :
       CreateWorkspaceQuery(c, slug, a.title, a.description)
  \/ \E c \in Threads : CreateWorkspaceInsert(c)
  \/ \E c \in Threads, slug \in Slugs, page_name \in PageNames :
       AddPageQuery(c, slug, page_name)
  \/ \E c \in Threads : AddPageInsert(c)
  \/ \E slug \in Slugs, page_name \in PageNames : RemovePage(slug, page_name)
  \/ \E slug \in Slugs, page_name \in PageNames, d \in Descriptions :
       AddDescription(slug, page_name, d)

SpecPages == InitPages /\ [][NextPages]_vars

\* C21: a create_workspace call that finds its slug in the project changes
\* no row of any table and adds none, and what it returns is a stored row of
\* that slug, whatever title and description it was given
C21_ExistingSlugReturnedUnchanged ==
  [][(answer' # answer /\ answer'.how = "existing") =>
       /\ <<workspaces, pages, notes, highlights, events>>'
            = <<workspaces, pages, notes, highlights, events>>
       /\ answer'.ret \in workspace_rows(workspaces, answer'.asked.slug)]_vars

\* a call with another title and description than the stored row's has
\* returned the stored row
C21_ReturnedStoredTitle ==
  /\ answer.how = "existing"
  /\ answer.asked.title # answer.ret.title
  /\ answer.asked.description # answer.ret.description
  /\ Len(workspaces) = 1
  /\ workspaces[1] = answer.ret

\* C22: in every reachable state no two rows of workspace_pages have the
\* same workspace and page_name, also when add_page and remove_page calls
\* overlap
C22_PageNamesFormASet ==
  \A i, j \in 1..Len(pages) :
    (pages[i].slug = pages[j].slug /\ pages[i].page = pages[j].page) => i = j

(***************************************************************************)
(* The heartbeat scheduler: engine/heartbeat.py and _heartbeat_loop        *)
(***************************************************************************)
\* passes of the loop in a run
MaxPasses == 3

\* minutes from one pass of the loop to the next: the 60 s wait and what
\* the pass before took
TickSteps == {1, 29, 30, 59, 60}

\* minutes a heartbeat turn takes
TurnMinutes == {0, 1}

\* the times of day a run starts at: 06:59, 17:30, 21:00, 23:59
StartTimes == {419, 1050, 1260, 1439}

ShouldMessageDrafts(mode) == mode \in {"urgent", "targeted"}

\* the should_message literal of each return of decide_heartbeat_mode
ShouldMessage(mode) == mode = "urgent"

\* [w for w in workspaces if status == "active" and page_count > 0]
active_workspaces(wss) ==
  SelectSeq(wss, LAMBDA w : w.status = "active" /\ w.page_count > 0)

\* the first workspace of the list, without the sort
least_recently_updated_unsorted(active) == active[1]

\* active_workspaces.sort(key=updated); active_workspaces[0]: the sort is
\* stable, so of the oldest ones it is the first of the list
least_recently_updated(active) ==
  active[CHOOSE i \in 1..Len(active) :
           \A j \in 1..Len(active) :
             \/ active[i].updated < active[j].updated
             \/ (active[i].updated = active[j].updated /\ i <= j)]

\* _pick_boredom_target, by the type of what it picks
pick_boredom_target(state) ==
  [type |-> IF state.boredom_streak >= BOREDOM_ADVENTUROUS_THRESHOLD
              THEN "cross_reference" ELSE "explore"]

Decision(mode, target, streak) ==
  [mode |-> mode, target |-> target, should_message |-> ShouldMessage(mode),
   boredom_streak |-> streak]

decide_heartbeat_mode(schedule_events, wss, gaps, state) ==
  IF schedule_events # <<>> THEN Decision("urgent", schedule_events, 0)
  ELSE IF active_workspaces(wss) # <<>>
    THEN Decision("targeted", <<least_recently_updated(active_workspaces(wss))>>, 0)
  ELSE IF gaps # <<>> THEN Decision("curious", SubSeq(gaps, 1, Min(Len(gaps), 5)), 0)
  ELSE Decision("bored", <<pick_boredom_target(state)>>, state.boredom_streak + 1)

\* a record_heartbeat that keeps the streak after a heartbeat that was not
\* bored
record_heartbeat_no_reset(state, decision, t) ==
  [last_heartbeat |-> t,
   boredom_streak |-> IF decision.mode = "bored" THEN decision.boredom_streak
                      ELSE state.boredom_streak]

\* record_heartbeat at time t
record_heartbeat(state, decision, t) ==
  [last_heartbeat |-> t,
   boredom_streak |-> IF decision.mode = "bored" THEN decision.boredom_streak
                      ELSE 0]

\* what schedule_upcoming(days="2") gives the loop
EventLists == {<<>>, <<[title |-> "pour"]>>}

WorkspaceListing(slug, status, page_count, updated) ==
  [slug |-> slug, status |-> status, page_count |-> page_count, updated |-> updated]

\* what list_workspaces() gives the loop
BeatWorkspaceLists == {<<>>, <<WorkspaceListing("ws1", "active", 1, 1)>>}

\* one pass of _heartbeat_loop up to conversation.send: the wait, the
\* inputs, run_heartbeat (gaps is always []), emit_heartbeat
BeatTick ==
  /\ beat.pc = "wait"
  /\ beat.n < MaxPasses
  /\ \E d \in TickSteps : now' = now + d
  /\ \E evs \in EventLists, wss \in BeatWorkspaceLists :
       IF ~should_heartbeat(hb_state, now')
         THEN /\ beat' = [NoBeat EXCEPT !.n = beat.n + 1, !.mode = "skip",
                                            !.started = beat.started]
              /\ UNCHANGED bus
         ELSE LET decision == decide_heartbeat_mode(evs, wss, <<>>, hb_state)
              IN /\ beat' = [pc |-> "send", n |-> beat.n + 1, mode |-> decision.mode,
                             should_message |-> decision.should_message,
                             boredom_streak |-> decision.boredom_streak,
                             target |-> decision.target, started |-> now']
                 /\ bus' = Append(bus, Ev("heartbeat", decision.mode, 0))
  /\ UNCHANGED <<hb_state, outbox, gathered, events, nextEvt>>
  /\ UNCHANGED <<convVars, storeVars, hubVars, notBeat>>

\* conversation.send(prompt) returns: record_heartbeat(_load_state(),
\* decision), whose _save_state may fail, then the response goes to
\* sendblue_send if warranted, and emit_finding if that did not raise
BeatReturn ==
  /\ beat.pc = "send"
  /\ \E d \in TurnMinutes : now' = now + d
  /\ \E response \in AnswerLens, save_ok \in BOOLEAN, sent_ok \in BOOLEAN :
       IF ~save_ok
         THEN UNCHANGED <<hb_state, outbox, bus>>
         ELSE /\ hb_state' = record_heartbeat(hb_state, beat, now')
              /\ IF beat.should_message /\ response # 0
                   THEN /\ outbox' = Append(outbox, [via |-> "heartbeat",
                                                     mode |-> beat.mode])
                        /\ bus' = IF sent_ok THEN Append(bus, Ev("finding", beat.mode, 0))
                                             ELSE bus
                   ELSE UNCHANGED <<outbox, bus>>
  /\ beat' = [beat EXCEPT !.pc = "wait"]
  /\ UNCHANGED <<gathered, events, nextEvt>>
  /\ UNCHANGED <<convVars, storeVars, hubVars, notBeat>>

\* conversation.send(prompt) raises: the except clause of the loop prints
BeatRaise ==
  /\ beat.pc = "send"
  /\ \E d \in TurnMinutes : now' = now + d
  /\ beat' = [beat EXCEPT !.pc = "wait"]
  /\ UNCHANGED <<hb_state, outbox, gathered, bus, events, nextEvt>>
  /\ UNCHANGED <<convVars, storeVars, hubVars, notBeat>>

InitBeat ==
  /\ InitCore
  /\ now \in StartTimes
  /\ hb_state = default_state
  /\ beat = NoBeat
  /\ outbox = <<>>
  /\ gathered = NoInputs
  /\ InitWeb
  /\ InitTools
  /\ InitKnow
  /\ InitBox
  /\ InitLate

NextBeat == BeatTick \/ BeatReturn \/ BeatRaise

SpecBeat == InitBeat /\ [][NextBeat]_vars

\* C23: a pass of the loop starts a heartbeat turn only outside 22:00-07:00
\* and, if a heartbeat was recorded before, only 30 minutes or more after
\* last_heartbeat between 07:00 and 18:00 and 60 minutes or more after it
\* between 18:00 and 22:00; any other pass changes nothing but the time
C23_TurnStartsOnlyWhenDue ==
  [][beat.pc = "wait" =>
       IF /\ HourOf(now') \in 7..21
          /\ \/ hb_state.last_heartbeat = NoLast
             \/ now' - hb_state.last_heartbeat >= (IF HourOf(now') < 18 THEN 30 ELSE 60)
         THEN beat'.pc = "send"
         ELSE /\ beat'.pc = "wait"
              /\ <<hb_state, outbox, bus>>' = <<hb_state, outbox, bus>>]_vars

\* a turn has started in work hours exactly 30 minutes after the heartbeat
\* recorded last
C23_StartedAtInterval ==
  /\ beat.pc = "send"
  /\ hb_state.last_heartbeat # NoLast
  /\ now - hb_state.last_heartbeat = 30
  /\ HourOf(now) < 18

(***************************************************************************)
(* decide_heartbeat_mode on its own                                        *)
(***************************************************************************)
\* the boredom streaks a call may find stored
MaxStreak == 3

Statuses == {"active", "archived"}

\* the listing of the workspace at place i of a list
ListingsAt(i) ==
  { WorkspaceListing(IF i = 1 THEN "ws1" ELSE "ws2", st, pc_, u) :
      st \in Statuses, pc_ \in {0, 1}, u \in {1, 2} }

\* lists of at most two workspaces
DecideWorkspaceLists ==
  {<<>>} \cup { <<a>> : a \in ListingsAt(1) }
         \cup { <<a, b>> : a \in ListingsAt(1), b \in ListingsAt(2) }

GapLists == {<<>>, <<[type |-> "missing_pointer"]>>}

\* decide_heartbeat_mode(schedule_events, workspaces, gaps, state, project)
Decide ==
  /\ beat.pc = "wait"
  /\ LET decision == decide_heartbeat_mode(gathered.schedule_events,
                                            gathered.workspaces, gathered.gaps,
                                            hb_state)
     IN beat' = [pc |-> "send", n |-> beat.n + 1, mode |-> decision.mode,
                 should_message |-> decision.should_message,
                 boredom_streak |-> decision.boredom_streak,
                 target |-> decision.target, started |-> now]
  /\ UNCHANGED <<now, hb_state, outbox, gathered, bus, events, nextEvt>>
  /\ UNCHANGED <<convVars, storeVars, hubVars, notBeat>>

InitDecide ==
  /\ InitCore
  /\ now = StartOfDay
  /\ hb_state \in [last_heartbeat : {NoLast}, boredom_streak : 0..MaxStreak]
  /\ beat = NoBeat
  /\ outbox = <<>>
  /\ gathered \in [schedule_events : EventLists, workspaces : DecideWorkspaceLists,
                   gaps : GapLists]
  /\ InitWeb
  /\ InitTools
  /\ InitKnow
  /\ InitBox
  /\ InitLate

NextDecide == Decide

SpecDecide == InitDecide /\ [][NextDecide]_vars

\* the active workspaces with at least one page among the arguments
Reviewable ==
  { gathered.workspaces[i] : i \in { j \in 1..Len(gathered.workspaces) :
      /\ gathered.workspaces[j].status = "active"
      /\ gathered.workspaces[j].page_count >= 1 } }

\* C24: the mode decided is urgent if there is an upcoming event; else
\* targeted if an active workspace has a page, and the target is then such a
\* workspace than which none was updated earlier; else curious if there
\* are gaps; else bored
C24_CascadePriority ==
  beat.pc = "send" =>
    IF gathered.schedule_events # <<>> THEN beat.mode = "urgent"
    ELSE IF Reviewable # {}
      THEN /\ beat.mode = "targeted"
           /\ Len(beat.target) = 1
           /\ beat.target[1] \in Reviewable
           /\ \A w \in Reviewable : beat.target[1].updated <= w.updated
    ELSE IF gathered.gaps # <<>> THEN beat.mode = "curious"
    ELSE beat.mode = "bored"

\* targeted was decided with gaps present, and of two workspaces to review
\* the second of the list, updated earlier, is the target
C24_OlderSecondTargeted ==
  /\ beat.pc = "send"
  /\ beat.mode = "targeted"
  /\ gathered.gaps # <<>>
  /\ Len(gathered.workspaces) = 2
  /\ Cardinality(Reviewable) = 2
  /\ gathered.workspaces[2].updated < gathered.workspaces[1].updated
  /\ beat.target = <<gathered.workspaces[2]>>

\* C25: should_message is true of an urgent decision and false of a
\* targeted, curious or bored one, and a text goes to the outbound sender
\* for a heartbeat only if its mode is urgent and its should_message is true
C25_OnlyUrgentIsForwarded ==
  [][/\ beat'.pc = "send" => (beat'.should_message <=> beat'.mode = "urgent")
     /\ outbox' # outbox =>
          /\ beat.pc = "send" /\ beat.should_message /\ beat.mode = "urgent"
          /\ outbox' = Append(outbox, [via |-> "heartbeat", mode |-> "urgent"])]_vars

\* an urgent heartbeat has been forwarded and a targeted one, recorded
\* after it, has not
C25_TargetedKeptQuiet ==
  /\ Len(outbox) = 1
  /\ beat.pc = "wait"
  /\ beat.mode = "targeted"
  /\ hb_state.last_heartbeat = now
  /\ \E i \in 1..Len(bus) : bus[i] = Ev("heartbeat", "targeted", 0)

\* C26: a record_heartbeat sets last_heartbeat to the time of the call and
\* the streak to 0 after a heartbeat that was not bored, and to one more
\* than the stored streak after a bored one
C26_StreakCountsBoredHeartbeats ==
  [][hb_state' # hb_state =>
       /\ beat.pc = "send"
       /\ hb_state'.last_heartbeat = now'
       /\ hb_state'.boredom_streak =
            IF beat.mode = "bored" THEN hb_state.boredom_streak + 1 ELSE 0]_vars

\* two bored heartbeats were recorded and then one that was not bored
\* reset the streak of two
C26_StreakResetAfterTwo ==
  /\ beat.pc = "wait"
  /\ beat.mode \in {"urgent", "targeted"}
  /\ hb_state = [last_heartbeat |-> now, boredom_streak |-> 0]
  /\ Len(bus) >= 3
  /\ bus[1] = Ev("heartbeat", "bored", 0)
  /\ bus[2] = Ev("heartbeat", "bored", 0)
  /\ bus[3].type = "heartbeat"
  /\ bus[3].role = beat.mode

(***************************************************************************)
(* The inbound webhook: sendblue_webhook and _handle_message               *)
(***************************************************************************)
\* requests posted to the webhook in a run
MaxPosts == 3

\* super_phone
SUPER_PHONE == "+1super"

\* messaging.sendblue.FROM_NUMBER
FROM_NUMBER == "+1own"

\* body["from_number"]; "" when the body has neither from_number nor number
FromNumbers == {"", SUPER_PHONE, FROM_NUMBER, "+1other"}

\* body["content"] as it comes in
Contents == {"", " ", "hi"}

\* body["media_url"]; "" for None
MediaUrls == {"", "url"}

\* str.strip()
strip(content) == IF content = " " THEN "" ELSE content

Response(status, reason) == [status |-> status, reason |-> reason]

\* a webhook that takes messages from any number but its own
webhook_response_from_anyone(from_number, content, media_url) ==
  IF strip(content) = "" /\ media_url = "" THEN Response("ignored", "empty message")
  ELSE IF from_number = "" THEN Response("ignored", "no sender")
  ELSE IF from_number = FROM_NUMBER THEN Response("ignored", "outbound echo")
  ELSE Response("ok", "")

\* sendblue_webhook: what it returns; conversation is set before the server
\* starts
webhook_response(from_number, content, media_url) ==
  IF strip(content) = "" /\ media_url = "" THEN Response("ignored", "empty message")
  ELSE IF from_number = "" THEN Response("ignored", "no sender")
  ELSE IF from_number = FROM_NUMBER THEN Response("ignored", "outbound echo")
  ELSE IF from_number # SUPER_PHONE THEN Response("ignored", "unknown number")
  ELSE Response("ok", "")

\* sendblue_webhook: one request, answered; a message that is taken becomes
\* a task on the event loop
SendblueWebhook(from_number, content, media_url) ==
  /\ hook.n < MaxPosts
  /\ LET r == webhook_response(from_number, content, media_url)
     IN /\ hook' = [n |-> hook.n + 1,
                    accepted |-> hook.accepted + (IF r.status = "ok" THEN 1 ELSE 0),
                    from_number |-> from_number, content |-> content,
                    media_url |-> media_url, status |-> r.status,
                    reason |-> r.reason]
        /\ tasks' = IF r.status = "ok" THEN Append(tasks, strip(content)) ELSE tasks
  /\ UNCHANGED <<running, outbox, bus, events, nextEvt>>
  /\ UNCHANGED <<convVars, storeVars, hubVars, notWeb>>

\* _handle_message up to the executor: the typing indicator, emit_message
\* for the user, conversation.send handed to a thread
TaskStart ==
  /\ tasks # <<>>
  /\ tasks' = Tail(tasks)
  /\ running' = running + 1
  /\ turns' = turns + 1
  /\ bus' = Append(bus, Ev("message", "user", turns + 1))
  /\ UNCHANGED <<messages, nextId, clock, summary, total_exchanges, compactions,
                 engine_name, fixed_tokens, chat, pc, loc, toolCalls, was_below,
                 context_limit, hook, outbox, events, nextEvt>>
  /\ UNCHANGED <<storeVars, hubVars, notWeb>>

\* _handle_message from the executor on: the reply goes to sendblue_send and
\* to the bus; if the turn or the sender raises, the apology is sent
TaskEnd ==
  /\ running > 0
  /\ running' = running - 1
  /\ \E response \in AnswerLens, raised \in BOOLEAN, sent_ok \in BOOLEAN :
       IF raised
         THEN /\ outbox' = Append(outbox, [via |-> "sorry", mode |-> "none"])
              /\ UNCHANGED bus
       ELSE IF response = 0
         THEN UNCHANGED <<outbox, bus>>
       ELSE IF sent_ok
         THEN /\ outbox' = Append(outbox, [via |-> "reply", mode |-> "none"])
              /\ bus' = Append(bus, Ev("message", "assistant", 0))
       ELSE /\ outbox' = outbox \o << [via |-> "reply", mode |-> "none"],
                                     [via |-> "sorry", mode |-> "none"] >>
            /\ UNCHANGED bus
  /\ UNCHANGED <<hook, tasks, events, nextEvt>>
  /\ UNCHANGED <<convVars, storeVars, hubVars, notWeb>>

InitWebhook == InitStore

NextWebhook ==
  \/ \E f \in FromNumbers, c \in Contents, m \in MediaUrls : SendblueWebhook(f, c, m)
  \/ TaskStart
  \/ TaskEnd

SpecWebhook == InitWebhook /\ [][NextWebhook]_vars

\* a message the rules drop: not from the configured user, from the
\* service's own number, or with no content once stripped and no media
Dropped(h) ==
  \/ h.from_number # "+1super"
  \/ h.from_number = "+1own"
  \/ (h.content \in {"", " "} /\ h.media_url = "")

\* C27: a request whose message the rules drop creates no task and starts
\* no turn; any other request creates exactly one task and is answered ok
\* in the same step, with no turn started by then; and a turn only starts
\* by taking one task off the queue
C27_OneTurnPerAcceptedMessage ==
  [][/\ hook'.n # hook.n =>
          /\ turns' = turns /\ running' = running
          /\ IF Dropped(hook')
               THEN tasks' = tasks /\ hook'.status # "ok"
               ELSE /\ Len(tasks') = Len(tasks) + 1
                    /\ hook'.status = "ok"
     /\ turns' # turns =>
          /\ turns' = turns + 1
          /\ Len(tasks) >= 1
          /\ Len(tasks') = Len(tasks) - 1]_vars

\* a message with media and no text was answered ok while the turn of an
\* earlier message is still running and its own has not started
C27_AnsweredBeforeTurn ==
  /\ hook.status = "ok"
  /\ hook.content = ""
  /\ hook.media_url # ""
  /\ hook.accepted = 2
  /\ running = 1
  /\ Len(tasks) = 1
  /\ turns = 1
  /\ outbox = <<>>

(***************************************************************************)
(* The tool-use loop of the provider adapters                              *)
(***************************************************************************)
\* provider requests in one send_message
MaxRequests == 3

\* the numbers of tool calls a response of a provider asks for
CallCounts == {0, 1, 2}

Providers == {"anthropic", "openai", "google"}

\* the names a model asks for: one of tool_functions and one that is not
FuncNames == {"add_note", "no_such_tool"}

tool_functions == {"add_note"}

\* how a handler ends: with a dict, with image content blocks, or by
\* raising an exception
HandlerOutcomes == {"dict", "image", "raises"}

\* str(exc) of what handlers raise
Details == {"boom", ""}

\* f"Tool execution error: {exc}", f"Unknown function: {func_name}"
Fmt(prefix, value) == [raise |-> FALSE, text |-> <<prefix, value>>]

\* a tool result that is not put together from a prefix
Text(what) == [raise |-> FALSE, text |-> <<what>>]

\* what leaves _execute_tool when the exception of a handler is not caught
Propagates(detail) == [raise |-> TRUE, text |-> <<detail>>]

\* anthropic.py: _execute_tool, then _stringify_result and str()
anthropic_execute_tool(func_name, outcome, detail) ==
  IF func_name \in tool_functions
    THEN IF outcome = "raises" THEN Fmt("Tool execution error: ", detail)
         ELSE IF outcome = "image" THEN Text("content blocks")
         ELSE Text("json")
    ELSE Fmt("Unknown function: ", func_name)

\* openai.py: _execute_tool, then _stringify_result
openai_execute_tool(func_name, outcome, detail) ==
  IF func_name \in tool_functions
    THEN IF outcome = "raises" THEN Fmt("Tool execution error: ", detail)
         ELSE Text("json")
    ELSE Fmt("Unknown function: ", func_name)

\* a google _execute_tool without its except clause
google_execute_tool_unguarded(func_name, outcome, detail) ==
  IF func_name \in tool_functions
    THEN IF outcome = "raises" THEN Propagates(detail)
         ELSE IF outcome = "image" THEN Text("Image returned.")
         ELSE Text("json")
    ELSE Fmt("Unknown function: ", func_name)

\* google.py: _execute_tool, then _stringify_result
google_execute_tool(func_name, outcome, detail) ==
  IF func_name \in tool_functions
    THEN IF outcome = "raises" THEN Fmt("Tool execution error: ", detail)
         ELSE IF outcome = "image" THEN Text("Image returned.")
         ELSE Text("json")
    ELSE Fmt("Unknown function: ", func_name)

execute_tool(provider, func_name, outcome, detail) ==
  IF provider = "anthropic" THEN anthropic_execute_tool(func_name, outcome, detail)
  ELSE IF provider = "openai" THEN openai_execute_tool(func_name, outcome, detail)
  ELSE google_execute_tool(func_name, outcome, detail)

\* the loop after a response that asks for n tool calls
AfterResponse(run, n) ==
  [run EXCEPT !.requests = @ + 1, !.pending = n,
              !.pc = IF n = 0 THEN "done" ELSE "tools"]

\* send_message up to the loop: the first request to the provider, which
\* raises or answers with text or with tool calls
LoopSend(provider) ==
  /\ toolrun.pc = "idle"
  /\ \E api_ok \in BOOLEAN, n \in CallCounts :
       toolrun' = IF api_ok
                    THEN AfterResponse([NoToolRun EXCEPT !.provider = provider], n)
                    ELSE [NoToolRun EXCEPT !.provider = provider, !.pc = "raised"]
  /\ UNCHANGED <<outbox, bus, events, nextEvt>>
  /\ UNCHANGED <<convVars, storeVars, hubVars, notTools>>

\* one tool call of the response: _execute_tool and the tool result that is
\* put together for the model
LoopTool(func_name, outcome, detail) ==
  /\ toolrun.pc = "tools"
  /\ LET result == execute_tool(toolrun.provider, func_name, outcome, detail)
         call == [func_name |-> func_name, outcome |-> outcome, detail |-> detail]
     IN toolrun' =
          IF result.raise
            THEN [toolrun EXCEPT !.pc = "raised", !.call = call]
            ELSE [toolrun EXCEPT !.call = call, !.results = Append(@, result.text),
                                 !.pending = @ - 1,
                                 !.pc = IF toolrun.pending = 1 THEN "request"
                                                               ELSE "tools"]
  /\ UNCHANGED <<outbox, bus, events, nextEvt>>
  /\ UNCHANGED <<convVars, storeVars, hubVars, notTools>>

\* the request at the end of the loop body: the tool results go to the
\* provider, which raises or answers with text or with more tool calls
LoopRequest ==
  /\ toolrun.pc = "request"
  /\ \E api_ok \in BOOLEAN, n \in CallCounts :
       /\ toolrun.requests + 1 >= MaxRequests => n = 0
       /\ toolrun' = IF api_ok THEN AfterResponse(toolrun, n)
                               ELSE [toolrun EXCEPT !.pc = "raised"]
  /\ UNCHANGED <<outbox, bus, events, nextEvt>>
  /\ UNCHANGED <<convVars, storeVars, hubVars, notTools>>

InitToolLoop == InitStore

NextToolLoop ==
  \/ \E provider \in Providers : LoopSend(provider)
  \/ \E f \in FuncNames, o \in HandlerOutcomes, d \in Details : LoopTool(f, o, d)
  \/ LoopRequest

SpecToolLoop == InitToolLoop /\ [][NextToolLoop]_vars

\* C28: with every provider, a step of the loop in which the handler of a
\* known tool raises adds the tool result "Tool execution error: <detail>"
\* and leaves the loop running: it goes on to the next tool call of the
\* response or, after the last one, to the next provider request
C28_HandlerErrorsBecomeResults ==
  [][(/\ toolrun.pc = "tools"
      /\ toolrun'.call.func_name \in {"add_note"}
      /\ toolrun'.call.outcome = "raises"
      /\ toolrun' # toolrun) =>
        /\ toolrun'.results
             = Append(toolrun.results,
                      <<"Tool execution error: ", toolrun'.call.detail>>)
        /\ toolrun'.pc = IF toolrun.pending = 1 THEN "request" ELSE "tools"
        /\ toolrun'.requests = toolrun.requests]_vars

\* with the google adapter the handler of the one tool call has raised and
\* the request after it was made and answered
C28_LoopWentOnAfterError ==
  /\ toolrun.provider = "google"
  /\ toolrun.pc = "done"
  /\ toolrun.requests = 2
  /\ toolrun.results = << <<"Tool execution error: ", "boom">> >>

(***************************************************************************)
(* update_knowledge under two callers                                      *)
(***************************************************************************)
\* update_knowledge calls in a run
MaxUpdates == 3

Fields == {"sheet_reflection", "index", "cross_references", "content_markdown",
           "notes"}

\* the value argument: JSON that fits the field, or text that is not JSON
Values == {"v1", "not json"}

\* a file open(mode="w") has truncated and write has not filled yet, or
\* has filled in part
TornPass1 == [Pass1 EXCEPT !.torn = TRUE, !.sheet_reflection = ""]

TornPass2 == [Pass2 EXCEPT !.torn = TRUE, !.content_markdown = ""]

\* update_knowledge up to the patch: the page and the branch are found and
\* the file is read; a file that does not parse ends the call
UkRead(c, field, value, region_id) ==
  /\ upd[c].pc = "idle"
  /\ ks_file.writes < MaxUpdates
  /\ LET branch == IF region_id /\ field = "content_markdown"
                     THEN "pass2" ELSE "pass1"
         data == ks_file[branch]
     IN upd' = [upd EXCEPT ![c] =
          IF data.torn
            THEN [NotUpdating EXCEPT !.ret = "ERROR reading"]
            ELSE [pc |-> "patch", branch |-> branch, field |-> field,
                  value |-> value, data |-> data, ret |-> "none"]]
  /\ UNCHANGED <<ks_file, ks_page, outbox, bus, events, nextEvt>>
  /\ UNCHANGED <<convVars, storeVars, hubVars, notKnow>>

\* the patch: the pass1 branch changes the data read and the page in
\* memory together, before the file is written; the pass2 branch changes
\* only the data read; a value or field that does not fit ends the call
UkPatch(c) ==
  /\ upd[c].pc = "patch"
  /\ LET u == upd[c]
         ok == \/ u.branch = "pass2"
               \/ u.field = "sheet_reflection"
               \/ (u.field \in {"index", "cross_references"} /\ u.value # "not json")
         data == IF u.branch = "pass2"
                   THEN [u.data EXCEPT !.content_markdown = u.value]
                 ELSE IF u.field = "sheet_reflection"
                   THEN [u.data EXCEPT !.sheet_reflection = u.value]
                 ELSE IF u.field = "index"
                   THEN [u.data EXCEPT !.index = @ \cup {u.value}]
                 ELSE [u.data EXCEPT !.cross_references = Append(@, u.value)]
     IN /\ upd' = [upd EXCEPT ![c] =
                     IF ok THEN [u EXCEPT !.pc = "write", !.data = data]
                           ELSE [NotUpdating EXCEPT !.ret = "SKIP"]]
        /\ ks_page' =
             IF ~ok \/ u.branch = "pass2" THEN ks_page
             ELSE IF u.field = "sheet_reflection"
               THEN [ks_page EXCEPT !.sheet_reflection = u.value]
             ELSE IF u.field = "index"
               THEN [ks_page EXCEPT !.index = @ \cup {u.value}]
             ELSE [ks_page EXCEPT !.cross_references = data.cross_references]
  /\ UNCHANGED <<ks_file, outbox, bus, events, nextEvt>>
  /\ UNCHANGED <<convVars, storeVars, hubVars, notKnow>>

\* write_text, first half: open(mode="w") truncates the file
UkTruncate(c) ==
  /\ upd[c].pc = "write"
  /\ ks_file' = [ks_file EXCEPT ![upd[c].branch] =
                   IF upd[c].branch = "pass1" THEN TornPass1 ELSE TornPass2]
  /\ upd' = [upd EXCEPT ![c].pc = "writing"]
  /\ UNCHANGED <<ks_page, outbox, bus, events, nextEvt>>
  /\ UNCHANGED <<convVars, storeVars, hubVars, notKnow>>

\* write_text, second half: the text is written and the file closed, or the
\* write raises OSError; after a pass2 write the pointer in memory is set
UkWrite(c) ==
  /\ upd[c].pc = "writing"
  /\ \E io_ok \in BOOLEAN :
       IF io_ok
         THEN /\ ks_file' = [ks_file EXCEPT ![upd[c].branch] = upd[c].data,
                                            !.writes = @ + 1]
              /\ ks_page' = IF upd[c].branch = "pass2"
                              THEN [ks_page EXCEPT !.content_markdown = upd[c].value]
                              ELSE ks_page
              /\ upd' = [upd EXCEPT ![c] = [NotUpdating EXCEPT !.ret = "OK"]]
         ELSE /\ ks_file' = [ks_file EXCEPT !.writes = @ + 1]
              /\ upd' = [upd EXCEPT ![c] = [NotUpdating EXCEPT !.ret = "raised"]]
              /\ UNCHANGED ks_page
  /\ UNCHANGED <<outbox, bus, events, nextEvt>>
  /\ UNCHANGED <<convVars, storeVars, hubVars, notKnow>>

InitKnowledge == InitStore

NextKnowledge ==
  \/ \E c \in Threads, f \in Fields, v \in Values, r \in BOOLEAN : UkRead(c, f, v, r)
  \/ \E c \in Threads : UkPatch(c)
  \/ \E c \in Threads : UkTruncate(c)
  \/ \E c \in Threads : UkWrite(c)

SpecKnowledge == InitKnowledge /\ [][NextKnowledge]_vars

\* the page in memory says what the two files say
FilesAgreeWithPage ==
  /\ ~ks_file.pass1.torn
  /\ ~ks_file.pass2.torn
  /\ ks_page.sheet_reflection = ks_file.pass1.sheet_reflection
  /\ ks_page.index = ks_file.pass1.index
  /\ ks_page.cross_references = ks_file.pass1.cross_references
  /\ ks_page.content_markdown = ks_file.pass2.content_markdown

\* C29: no file of the page is ever torn where a reader may open it, no
\* caller has read a file that did not parse, and whenever no
\* update_knowledge call is under way, whether the calls returned or
\* failed, the page in memory and the files on disk agree
C29_FileAndViewChangeTogether ==
  /\ ~ks_file.pass1.torn
  /\ ~ks_file.pass2.torn
  /\ \A c \in Threads : upd[c].ret # "ERROR reading"
  /\ (\A c \in Threads : upd[c].pc = "idle") => FilesAgreeWithPage

(***************************************************************************)
(* Highlight boxes (repository.py _sanitize_bbox, vision.py                *)
(* _normalize_bbox).  Fractions of the frame are integers in units of      *)
(* 1e-7, one digit finer than the six decimals the code rounds to.         *)
(***************************************************************************)
\* 1.0
One == 10000000

\* round(v, 6) keeps multiples of 1e-6
Step6 == 10

\* round(v, 4) keeps multiples of 1e-4
Step4 == 1000

\* round(v, ndigits) for v >= 0: to the nearest multiple of step, a tie to
\* the even one
round(v, step) ==
  LET q == v \div step
      r == v % step
  IN IF 2 * r < step THEN q * step
     ELSE IF 2 * r > step THEN (q + 1) * step
     ELSE IF q % 2 = 0 THEN q * step
     ELSE (q + 1) * step

Max(a, b) == IF a >= b THEN a ELSE b

\* vision.py _clamp
_clamp(value, minimum, maximum) == Max(minimum, Min(maximum, value))

Box(x, y, width, height) == [x |-> x, y |-> y, width |-> width, height |-> height]

\* None
NoBox == [ok |-> FALSE, box |-> Box(0, 0, 0, 0)]

Some(b) == [ok |-> TRUE, box |-> b]

\* _sanitize_bbox: clamp into the frame, drop an empty box, then round
_sanitize_bbox(value) ==
  LET x == Max(0, Min(One, value.x))
      y == Max(0, Min(One, value.y))
      width == Max(0, Min(One - x, value.width))
      height == Max(0, Min(One - y, value.height))
  IN IF width <= 0 \/ height <= 0 THEN NoBox
     ELSE Some(Box(round(x, Step6), round(y, Step6),
                   round(width, Step6), round(height, Step6)))

\* _normalize_bboxes: the boxes _sanitize_bbox keeps, in order
RECURSIVE _normalize_bboxes(_)
_normalize_bboxes(value) ==
  IF value = <<>> THEN <<>>
  ELSE LET bbox == _sanitize_bbox(Head(value))
       IN (IF bbox.ok THEN <<bbox.box>> ELSE <<>>) \o _normalize_bboxes(Tail(value))

\* _serialize_bboxes: what complete_highlight writes to the bboxes column
_serialize_bboxes(value) == _normalize_bboxes(value)

\* image sizes in pixels; each divides One, so a pixel over the size is a
\* whole number of units
ImageSizes == {100, 25000}

\* _normalize_bbox: pixel corners to a fraction box, rounded to 6 decimals
_normalize_bbox(x1, y1, x2, y2, width, height) ==
  IF width <= 0 \/ height <= 0 THEN NoBox
  ELSE LET left == Min(x1, x2)
           right == Max(x1, x2)
           top == Min(y1, y2)
           bottom == Max(y1, y2)
           nx == _clamp(left * (One \div width), 0, One)
           ny == _clamp(top * (One \div height), 0, One)
           nright == _clamp(right * (One \div width), 0, One)
           nbottom == _clamp(bottom * (One \div height), 0, One)
           nwidth == nright - nx
           nheight == nbottom - ny
       IN IF right <= left \/ bottom <= top THEN NoBox
          ELSE IF nwidth <= 0 \/ nheight <= 0 THEN NoBox
          ELSE Some(Box(round(nx, Step6), round(ny, Step6),
                        round(nwidth, Step6), round(nheight, Step6)))

\* _dedupe_bboxes of one box: each number rounded to 4 decimals
_dedupe_bbox(b) ==
  Box(round(b.x, Step4), round(b.y, Step4), round(b.width, Step4),
      round(b.height, Step4))

\* _extract_bboxes_from_trace of a trace that holds one rectangle
_extract_bboxes_from_trace(x1, y1, x2, y2, image_width, image_height) ==
  LET normalized == _normalize_bbox(x1, y1, x2, y2, image_width, image_height)
  IN IF normalized.ok THEN <<_dedupe_bbox(normalized.box)>> ELSE <<>>

\* x and y a caller passes, in units of 1e-7
Coords == {-1000000, 0, 6, 5000000, 9999996, One}

\* width and height a caller passes, in units of 1e-7
Sizes == {-5, 0, 4, 5000000, One, 20000000}

\* pixel coordinates found in a trace
Pixels == {-10, 10, 11, 40, 99, 120}

\* complete_highlight(highlight_id, [box]) of a pending highlight
CompleteHighlightBox(x, y, width, height) ==
  /\ hbox.src = "none"
  /\ hbox' = [src |-> "call", passed |-> <<Box(x, y, width, height)>>,
              stored |-> _serialize_bboxes(<<Box(x, y, width, height)>>)]
  /\ UNCHANGED <<outbox, bus, events, nextEvt>>
  /\ UNCHANGED <<convVars, storeVars, hubVars, notBox>>

\* _run_highlight_agent of a pending highlight, from the trace on: no box
\* fails the highlight and leaves the column alone, else the boxes go to
\* complete_highlight
TraceHighlightBox(x1, y1, x2, y2, size) ==
  /\ hbox.src = "none"
  /\ LET bboxes == _extract_bboxes_from_trace(x1, y1, x2, y2, size, size)
     IN hbox' = IF bboxes = <<>>
                  THEN [src |-> "failed", passed |-> <<>>, stored |-> <<>>]
                  ELSE [src |-> "trace", passed |-> bboxes,
                        stored |-> _serialize_bboxes(bboxes)]
  /\ UNCHANGED <<outbox, bus, events, nextEvt>>
  /\ UNCHANGED <<convVars, storeVars, hubVars, notBox>>

InitBboxes == InitStore

NextBboxes ==
  \/ \E x \in Coords, y \in Coords, w \in Sizes, h \in Sizes :
       CompleteHighlightBox(x, y, w, h)
  \/ \E x1 \in Pixels, y1 \in Pixels, x2 \in Pixels, y2 \in Pixels,
        size \in ImageSizes : TraceHighlightBox(x1, y1, x2, y2, size)

SpecBboxes == InitBboxes /\ [][NextBboxes]_vars

\* a box inside the frame with a positive area
InFrame(b) ==
  /\ 0 <= b.x
  /\ 0 <= b.y
  /\ b.width > 0
  /\ b.height > 0
  /\ b.x + b.width <= One
  /\ b.y + b.height <= One

\* C30: every box in the bboxes column has 0 <= x, 0 <= y, width > 0,
\* height > 0, x + width <= 1 and y + height <= 1, whether the boxes came
\* from a caller of complete_highlight or from a vision trace
C30_StoredBboxesInFrame ==
  \A i \in DOMAIN hbox.stored : InFrame(hbox.stored[i])

(***************************************************************************)
(* Lists of highlight boxes (repository.py _normalize_bboxes, vision.py    *)
(* _dedupe_bboxes)                                                         *)
(***************************************************************************)
\* _dedupe_bboxes: the key of a box, each number rounded to 4 decimals
DedupeKey(b) == _dedupe_bbox(b)

\* _dedupe_bboxes: the first box of every key, as its key, in order
RECURSIVE dedupe_from(_, _)
dedupe_from(bboxes, seen) ==
  IF bboxes = <<>> THEN <<>>
  ELSE LET key == DedupeKey(Head(bboxes))
       IN IF key \in seen THEN dedupe_from(Tail(bboxes), seen)
          ELSE <<key>> \o dedupe_from(Tail(bboxes), seen \cup {key})

_dedupe_bboxes(bboxes) == dedupe_from(bboxes, {})

\* boxes a caller passes in a list: two that differ only past the fourth
\* decimal, one apart from them, one out of the frame
ListBoxes ==
  { Box(5000000, 5000000, 1000000, 1000000),
    Box(5000100, 5000000, 1000000, 1000000),
    Box(2000000, 5000000, 1000000, 1000000),
    Box(5000000, 5000000, 20000000, 1000000) }

\* rectangles of a trace, as <<x1, y1, x2, y2>> in pixels of a 100 x 100 image
ListRects == { <<10, 20, 60, 80>>, <<60, 80, 10, 20>>, <<10, 20, 60, 90>>,
               <<40, 40, 40, 80>> }

\* the image size of the traces
ListImageSize == 100

\* complete_highlight(highlight_id, [b1, b2]) of a pending highlight
CompleteHighlightList(b1, b2) ==
  /\ hbox.src = "none"
  /\ hbox' = [src |-> "call", passed |-> <<b1, b2>>,
              stored |-> _serialize_bboxes(<<b1, b2>>)]
  /\ UNCHANGED <<outbox, bus, events, nextEvt>>
  /\ UNCHANGED <<convVars, storeVars, hubVars, notBox>>

\* the boxes _normalize_bbox keeps of two rectangles
Normalized(r, size) == _normalize_bbox(r[1], r[2], r[3], r[4], size, size)

\* _run_highlight_agent of a pending highlight whose trace holds two
\* rectangles: they are normalized, deduplicated and, unless none is left,
\* passed to complete_highlight
TraceHighlightList(r1, r2) ==
  /\ hbox.src = "none"
  /\ LET n1 == Normalized(r1, ListImageSize)
         n2 == Normalized(r2, ListImageSize)
         bboxes == _dedupe_bboxes((IF n1.ok THEN <<n1.box>> ELSE <<>>)
                                  \o (IF n2.ok THEN <<n2.box>> ELSE <<>>))
     IN hbox' = IF bboxes = <<>>
                  THEN [src |-> "failed", passed |-> <<>>, stored |-> <<>>]
                  ELSE [src |-> "trace", passed |-> bboxes,
                        stored |-> _serialize_bboxes(bboxes)]
  /\ UNCHANGED <<outbox, bus, events, nextEvt>>
  /\ UNCHANGED <<convVars, storeVars, hubVars, notBox>>

InitBoxLists == InitStore

NextBoxLists ==
  \/ \E b1 \in ListBoxes, b2 \in ListBoxes : CompleteHighlightList(b1, b2)
  \/ \E r1 \in ListRects, r2 \in ListRects : TraceHighlightList(r1, r2)
  \/ \E x \in Coords, y \in Coords, w \in Sizes, h \in Sizes :
       CompleteHighlightBox(x, y, w, h)

SpecBoxLists == InitBoxLists /\ [][NextBoxLists]_vars

\* C31: the stored list of a completed highlight holds no two boxes that
\* are equal once each number is rounded to 4 decimals
C31_StoredBboxesDistinct ==
  \A i \in DOMAIN hbox.stored : \A j \in DOMAIN hbox.stored :
    i # j => DedupeKey(hbox.stored[i]) # DedupeKey(hbox.stored[j])

(***************************************************************************)
(* Schedule dates (tools/schedule.py add_event / update_event over         *)
(* repository.py).  A date is the day number of a YYYY-MM-DD string, so    *)
(* the order of the numbers is the lexicographic order of the strings.     *)
(***************************************************************************)
\* schedule events added in a run
MaxDated == 2

\* end omitted, or a field update_event is not given
NoDate == 0

\* a string _parse_date rejects
BadDate == -1

\* dates the tools are called with
Dates == {1, 2, 3, 4}

DateArgs == Dates \cup {NoDate, BadDate}

\* _parse_date accepts the string
parses(d) == d \in Dates

\* repository add_event: end or start
repo_add_event(rows, event_id, start, end) ==
  Put(rows, event_id, [start |-> start, end |-> IF end = NoDate THEN start ELSE end])

\* repository update_event: each date that is given replaces the stored one
repo_update_event(rows, event_id, start, end) ==
  IF event_id \notin DOMAIN rows THEN rows
  ELSE [rows EXCEPT ![event_id] =
          [start |-> IF start = NoDate THEN @.start ELSE start,
           end |-> IF end = NoDate THEN @.end ELSE end]]

\* tools add_event: start must parse, end must parse when given
ScheduleAddEvent(start, end) ==
  /\ Len(sched) < MaxDated
  /\ sched' = IF ~parses(start) \/ (end # NoDate /\ ~parses(end))
                THEN sched
                ELSE repo_add_event(sched, Len(sched) + 1, start, end)
  /\ UNCHANGED <<db, jobs, lock, lw, outbox, bus, events, nextEvt>>
  /\ UNCHANGED <<convVars, storeVars, hubVars, notLate>>

\* tools update_event: a date that is given must parse
ScheduleUpdateEvent(event_id, start, end) ==
  /\ sched' = IF (start # NoDate /\ ~parses(start)) \/ (end # NoDate /\ ~parses(end))
                THEN sched
                ELSE repo_update_event(sched, event_id, start, end)
  /\ UNCHANGED <<db, jobs, lock, lw, outbox, bus, events, nextEvt>>
  /\ UNCHANGED <<convVars, storeVars, hubVars, notLate>>

InitSchedule == InitStore

NextSchedule ==
  \/ \E start \in DateArgs, end \in DateArgs : ScheduleAddEvent(start, end)
  \/ \E event_id \in 1..MaxDated, start \in DateArgs, end \in DateArgs :
       ScheduleUpdateEvent(event_id, start, end)

SpecSchedule == InitSchedule /\ [][NextSchedule]_vars

\* C32: every stored schedule event has end >= start
C32_EndNotBeforeStart ==
  \A event_id \in DOMAIN sched : sched[event_id].end >= sched[event_id].start

(***************************************************************************)
(* Deleting a project (models.py relationships; the deletion itself is     *)
(* session.delete(project), as tests/test_db.py does it)                   *)
(***************************************************************************)
\* rows inserted in a run, over all tables
MaxDbRows == 4

\* a row: its primary key and the key of the row it references
Row(id, parent) == [id |-> id, parent |-> parent]

KeysOf(rows) == {r.id : r \in rows}

\* the rows that reference one of the keys
Children(rows, keys) == {r \in rows : r.parent \in keys}

\* a Workspace.pages relationship without the delete cascade
WorkspacePagesKept(rows, keys) == {}

\* Workspace.pages, cascade "all, delete-orphan": the pages deleted with
\* the workspaces that have these keys
WorkspacePagesDeleted(rows, keys) == Children(rows, keys)

\* the highlights deleted with the pages that have these keys
PageHighlightsDeleted(rows, keys) == Children(rows, keys)

\* session.delete(project): the project row and, along the relationships
\* that cascade, workspaces, their pages and notes, the pages' highlights,
\* schedule events, messages and the conversation state
delete_project(d, project_id) ==
  LET ws == Children(d.workspaces, {project_id})
      pg == WorkspacePagesDeleted(d.workspace_pages, KeysOf(ws))
      hl == PageHighlightsDeleted(d.workspace_highlights, KeysOf(pg))
  IN [d EXCEPT
        !.projects = @ \ {project_id},
        !.workspaces = @ \ ws,
        !.workspace_pages = @ \ pg,
        !.workspace_notes = @ \ Children(@, KeysOf(ws)),
        !.workspace_highlights = @ \ hl,
        !.schedule_events = @ \ Children(@, {project_id}),
        !.messages = @ \ Children(@, {project_id}),
        !.conversation_state = @ \ Children(@, {project_id})]

ProjectIds == {"p1", "p2"}

\* the tables whose rows reference a project
ProjectTables == {"workspaces", "schedule_events", "messages"}

\* create_workspace, add_event, add_message: a row of the project
DbAddToProject(table, project_id) ==
  /\ db.n < MaxDbRows
  /\ project_id \in db.projects
  /\ db' = [db EXCEPT ![table] = @ \cup {Row(db.n + 1, project_id)}, !.n = @ + 1]
  /\ UNCHANGED <<sched, jobs, lock, lw, outbox, bus, events, nextEvt>>
  /\ UNCHANGED <<convVars, storeVars, hubVars, notLate>>

\* get_or_create_conversation: one row per project
DbGetOrCreateConversation(project_id) ==
  /\ db.n < MaxDbRows
  /\ project_id \in db.projects
  /\ db' = IF Children(db.conversation_state, {project_id}) # {} THEN db
           ELSE [db EXCEPT !.conversation_state = @ \cup {Row(db.n + 1, project_id)},
                           !.n = @ + 1]
  /\ UNCHANGED <<sched, jobs, lock, lw, outbox, bus, events, nextEvt>>
  /\ UNCHANGED <<convVars, storeVars, hubVars, notLate>>

\* add_page, add_note: a row of a workspace that exists
DbAddToWorkspace(table, w) ==
  /\ db.n < MaxDbRows
  /\ w \in db.workspaces
  /\ db' = [db EXCEPT ![table] = @ \cup {Row(db.n + 1, w.id)}, !.n = @ + 1]
  /\ UNCHANGED <<sched, jobs, lock, lw, outbox, bus, events, nextEvt>>
  /\ UNCHANGED <<convVars, storeVars, hubVars, notLate>>

\* add_highlight: a row of a workspace page that exists
DbAddHighlight(page) ==
  /\ db.n < MaxDbRows
  /\ page \in db.workspace_pages
  /\ db' = [db EXCEPT !.workspace_highlights = @ \cup {Row(db.n + 1, page.id)},
                      !.n = @ + 1]
  /\ UNCHANGED <<sched, jobs, lock, lw, outbox, bus, events, nextEvt>>
  /\ UNCHANGED <<convVars, storeVars, hubVars, notLate>>

\* the tables with rows
DbTables ==
  {"workspaces", "workspace_pages", "workspace_notes", "workspace_highlights",
   "schedule_events", "messages", "conversation_state"}

\* session.delete(project) and the commit; gone notes the tables that lost
\* rows
DeleteProject(project_id) ==
  /\ project_id \in db.projects
  /\ LET d == delete_project(db, project_id)
     IN db' = [d EXCEPT !.gone = {t \in DbTables : d[t] # db[t]}]
  /\ UNCHANGED <<sched, jobs, lock, lw, outbox, bus, events, nextEvt>>
  /\ UNCHANGED <<convVars, storeVars, hubVars, notLate>>

InitProject == InitStore

NextProject ==
  \/ \E t \in ProjectTables, p \in ProjectIds : DbAddToProject(t, p)
  \/ \E p \in ProjectIds : DbGetOrCreateConversation(p)
  \/ \E t \in {"workspace_pages", "workspace_notes"}, w \in db.workspaces :
       DbAddToWorkspace(t, w)
  \/ \E page \in db.workspace_pages : DbAddHighlight(page)
  \/ \E p \in ProjectIds : DeleteProject(p)

SpecProject == InitProject /\ [][NextProject]_vars

\* every row references a row that exists
NoOrphans(d) ==
  /\ \A r \in d.workspaces \cup d.schedule_events \cup d.messages
             \cup d.conversation_state : r.parent \in d.projects
  /\ \A r \in d.workspace_pages \cup d.workspace_notes :
       r.parent \in KeysOf(d.workspaces)
  /\ \A r \in d.workspace_highlights : r.parent \in KeysOf(d.workspace_pages)

\* C33: no row references, directly or through a workspace or a page, a
\* project that has been deleted
C33_DeleteCascades == NoOrphans(db)

\* a project that had a workspace, a page and a highlight was deleted while
\* the other project is still there
C33_DeletedWithDescendants ==
  /\ db.projects = {"p2"}
  /\ {"workspaces", "workspace_pages", "workspace_highlights"} \subseteq db.gone
  /\ db.messages # {}

(***************************************************************************)
(* Learning queue and worker lock (learning/queue.py, learning/agent.py).  *)
(* A file name is a sequence: <<k>> is job id k, <<k, 1>> is the name      *)
(* _unique_destination makes of it, "<stem>_1.json".                       *)
(***************************************************************************)
\* jobs enqueued in a run
MaxJobs == 2

\* job ids: build_job_id gives the same id to entries of one type and
\* label made in the same second, and enqueue_entry takes an id as given
JobIds == {1, 2}

\* files the done directory holds in a run
MaxDone == 2

\* process exits and kills in a run
MaxStops == 2

\* the suffixes _unique_destination tries
Suffixes == 1..(MaxJobs + MaxDone)

\* a job file: its name, the entry it carries (numbered as enqueued), its
\* status and whether the two timestamps are set
JobFile(name, serial, status, started, finished) ==
  [name |-> name, serial |-> serial, status |-> status, started |-> started,
   finished |-> finished]

Names(dir) == {f.name : f \in dir}

\* the order of sorted(..., key=name.lower()) on these names
RECURSIVE NameBefore(_, _)
NameBefore(a, b) ==
  IF a = <<>> THEN b # <<>>
  ELSE IF b = <<>> THEN FALSE
  ELSE IF Head(a) # Head(b) THEN Head(a) < Head(b)
  ELSE NameBefore(Tail(a), Tail(b))

\* the first file of the sorted glob
FirstFile(dir) == CHOOSE f \in dir : \A g \in dir : g = f \/ NameBefore(f.name, g.name)

\* _unique_destination: the name itself when free, else the first free
\* "<stem>_<idx>"
_unique_destination(dir, name) ==
  IF name \notin Names(dir) THEN name
  ELSE LET free == {i \in Suffixes : Append(name, i) \notin Names(dir)}
       IN Append(name, CHOOSE i \in free : \A j \in free : i <= j)

\* a file written or moved to a name replaces the file of that name
Replace(dir, f) == {g \in dir : g.name # f.name} \cup {f}

\* enqueue_entry: the payload is written to pending/<id>.json
enqueue_entry(q, job_id) ==
  [q EXCEPT !.pending = Replace(@, JobFile(<<job_id>>, q.n + 1, "pending",
                                           FALSE, FALSE)),
            !.n = @ + 1]

\* recover_processing_to_pending: every file of processing, in name order,
\* is moved to a free name of pending
RECURSIVE recover_files(_, _)
recover_files(processing, pending) ==
  IF processing = {} THEN pending
  ELSE LET f == FirstFile(processing)
           dest == _unique_destination(pending, f.name)
       IN recover_files(processing \ {f}, Replace(pending, [f EXCEPT !.name = dest]))

recover_processing_to_pending(q) ==
  [q EXCEPT !.pending = recover_files(q.processing, @),
            !.processing = {},
            !.recovered = @ \cup {f.serial : f \in q.processing}]

\* claim_next_job on a pending directory that is not empty: the first file
\* is moved to a free name of processing and rewritten with its new status
claim_next_job(q) ==
  LET f == FirstFile(q.pending)
      dest == _unique_destination(q.processing, f.name)
  IN [q EXCEPT !.pending = @ \ {f},
               !.processing = Replace(@, JobFile(dest, f.serial, "processing",
                                                 TRUE, f.finished)),
               !.recovered = @ \ {f.serial}]

\* finalize_job: the payload is written to the processing path, which
\* makes the file if it is not there, and the file is moved to a free name
\* of done
finalize_job(q, path, serial, status) ==
  LET written == JobFile(path, serial, status, TRUE, TRUE)
      dest == _unique_destination(q.done, path)
  IN [q EXCEPT !.processing = {g \in @ : g.name # path},
               !.done = Replace(@, [written EXCEPT !.name = dest])]

\* an acquire_worker_lock that opens the file without O_EXCL
acquire_worker_lock_shared(l, fd, p) == [ok |-> TRUE, lock |-> p, fd |-> TRUE]

\* acquire_worker_lock of a process: true at once when its _LOCK_FD is set,
\* else the file is created with O_CREAT | O_EXCL, which fails when it exists
acquire_worker_lock(l, fd, p) ==
  IF fd THEN [ok |-> TRUE, lock |-> l, fd |-> TRUE]
  ELSE IF l = NoLock THEN [ok |-> TRUE, lock |-> p, fd |-> TRUE]
  ELSE [ok |-> FALSE, lock |-> l, fd |-> FALSE]

\* release_worker_lock: the descriptor is closed when set, and the file is
\* unlinked when it exists
release_worker_lock(l, fd, p) == [lock |-> NoLock, fd |-> FALSE]

\* enqueue_workspace_entry / enqueue_feedback_entry / enqueue_entry
Enqueue(job_id) ==
  /\ jobs.n < MaxJobs
  /\ jobs' = enqueue_entry(jobs, job_id)
  /\ UNCHANGED <<lock, lw, sched, db, outbox, bus, events, nextEvt>>
  /\ UNCHANGED <<convVars, storeVars, hubVars, notLate>>

\* a call of acquire_worker_lock
AcquireWorkerLock(p) ==
  /\ LET r == acquire_worker_lock(lock, lw[p].fd, p)
     IN /\ lock' = r.lock
        /\ lw' = [lw EXCEPT ![p].fd = r.fd]
  /\ UNCHANGED <<jobs, sched, db, outbox, bus, events, nextEvt>>
  /\ UNCHANGED <<convVars, storeVars, hubVars, notLate>>

\* a call of release_worker_lock
ReleaseWorkerLock(p) ==
  /\ LET r == release_worker_lock(lock, lw[p].fd, p)
     IN /\ lock' = r.lock
        /\ lw' = [lw EXCEPT ![p].fd = r.fd]
  /\ UNCHANGED <<jobs, sched, db, outbox, bus, events, nextEvt>>
  /\ UNCHANGED <<convVars, storeVars, hubVars, notLate>>

\* start_worker_if_enabled with learning enabled: nothing when the worker
\* thread is alive or the lock is refused; else the processing directory is
\* recovered, the thread started and the release registered for exit
StartWorker(p) ==
  /\ LET r == acquire_worker_lock(lock, lw[p].fd, p)
     IN IF lw[p].worker # "none"
          THEN UNCHANGED <<jobs, lock, lw>>
          ELSE IF ~r.ok
            THEN UNCHANGED <<jobs, lock, lw>>
            ELSE /\ lock' = r.lock
                 /\ jobs' = recover_processing_to_pending(jobs)
                 /\ lw' = [lw EXCEPT ![p] = [@ EXCEPT !.fd = TRUE, !.worker = "idle",
                                                      !.atexit = TRUE]]
  /\ UNCHANGED <<sched, db, outbox, bus, events, nextEvt>>
  /\ UNCHANGED <<convVars, storeVars, hubVars, notLate>>

\* _worker_loop: claim_next_job finds a pending file
Claim(p) ==
  /\ lw[p].worker = "idle"
  /\ jobs.pending # {}
  /\ LET f == FirstFile(jobs.pending)
         dest == _unique_destination(jobs.processing, f.name)
     IN /\ jobs' = claim_next_job(jobs)
        /\ lw' = [lw EXCEPT ![p].worker = "busy", ![p].path = dest,
                            ![p].serial = f.serial]
  /\ UNCHANGED <<lock, sched, db, outbox, bus, events, nextEvt>>
  /\ UNCHANGED <<convVars, storeVars, hubVars, notLate>>

\* _process_claimed_job: run_learning_job returns or raises, and
\* finalize_job files the outcome
Finalize(p, status) ==
  /\ lw[p].worker = "busy"
  /\ Cardinality(jobs.done) < MaxDone
  /\ jobs' = finalize_job(jobs, lw[p].path, lw[p].serial, status)
  /\ lw' = [lw EXCEPT ![p].worker = "idle", ![p].path = <<>>, ![p].serial = 0]
  /\ UNCHANGED <<lock, sched, db, outbox, bus, events, nextEvt>>
  /\ UNCHANGED <<convVars, storeVars, hubVars, notLate>>

\* the process ends: with the hook registered, _release_lock_at_exit runs;
\* the worker thread is a daemon and ends with it
Exit(p) ==
  /\ lw[p] # FreshProc
  /\ jobs.stops < MaxStops
  /\ jobs' = [jobs EXCEPT !.stops = @ + 1]
  /\ lock' = IF lw[p].atexit THEN release_worker_lock(lock, lw[p].fd, p).lock
             ELSE lock
  /\ lw' = [lw EXCEPT ![p] = FreshProc]
  /\ UNCHANGED <<sched, db, outbox, bus, events, nextEvt>>
  /\ UNCHANGED <<convVars, storeVars, hubVars, notLate>>

\* the process is killed: no exit hook runs
Crash(p) ==
  /\ lw[p] # FreshProc
  /\ jobs.stops < MaxStops
  /\ jobs' = [jobs EXCEPT !.stops = @ + 1]
  /\ lw' = [lw EXCEPT ![p] = FreshProc]
  /\ UNCHANGED <<lock, sched, db, outbox, bus, events, nextEvt>>
  /\ UNCHANGED <<convVars, storeVars, hubVars, notLate>>

InitLearning == InitStore

\* the queue as agent.py drives it: the lock is taken by
\* start_worker_if_enabled and released by the exit hook it registers
NextLearning ==
  \/ \E job_id \in JobIds : Enqueue(job_id)
  \/ \E p \in Procs : StartWorker(p)
  \/ \E p \in Procs : Claim(p)
  \/ \E p \in Procs, status \in {"done", "error"} : Finalize(p, status)
  \/ \E p \in Procs : Exit(p)
  \/ \E p \in Procs : Crash(p)

SpecLearning == InitLearning /\ [][NextLearning]_vars

\* the entries that have a file in the directory
Serials(dir) == {f.serial : f \in dir}

\* the files over the three directories that carry the entry
FilesOf(q, serial) ==
  {<<"pending", f>> : f \in {g \in q.pending : g.serial = serial}}
  \cup {<<"processing", f>> : f \in {g \in q.processing : g.serial = serial}}
  \cup {<<"done", f>> : f \in {g \in q.done : g.serial = serial}}

\* C34: every entry that was enqueued has exactly one file, in exactly one
\* of pending, processing and done; a file in pending has status pending, a
\* file in processing has status processing and its start time, a file in
\* done has a final status and its finish time
C34_JobInExactlyOneDirectory ==
  /\ \A serial \in 1..jobs.n : Cardinality(FilesOf(jobs, serial)) = 1
  /\ \A f \in jobs.processing : f.status = "processing" /\ f.started
  /\ \A f \in jobs.done : f.status \in {"done", "error"} /\ f.finished

\* the processes whose learning worker thread runs
Workers == {p \in Procs : lw[p].worker # "none"}

\* C35: at most one learning worker runs at a time; a process gets the lock
\* only when no lock file exists, so while one holds it every other
\* acquire is refused; and when the holder releases at exit the lock file
\* is gone
C35_WorkerLockExclusive ==
  /\ [](Cardinality(Workers) <= 1)
  /\ [][\A p \in Procs :
          /\ (lw'[p].fd /\ ~lw[p].fd) => (lock = NoLock /\ lock' = p)
          /\ (lw[p].atexit /\ lw'[p] = FreshProc /\ lock' # lock) => lock' = NoLock]_vars

\* one process holds the lock and works on a job while the other has been
\* refused and runs no worker
C35_HolderWorksAlone ==
  /\ lock = "a"
  /\ lw["a"].worker = "busy"
  /\ lw["b"] = FreshProc

\* the queue module called directly as well: any process may call
\* acquire_worker_lock and release_worker_lock
NextLockApi ==
  \/ NextLearning
  \/ \E p \in Procs : AcquireWorkerLock(p)
  \/ \E p \in Procs : ReleaseWorkerLock(p)

SpecLockApi == InitLearning /\ [][NextLockApi]_vars

\* C40: the lock file of a process that holds the lock stays in place until
\* that process releases it: a release_worker_lock by a process that does
\* not hold the lock removes nothing
C40_OnlyHolderReleases ==
  \A p \in Procs : lw[p].fd => lock = p

\* the worker thread keeps polling and every job it runs ends; a process
\* that is not running the worker is started again
SpecLearningFair ==
  /\ InitLearning
  /\ [][NextLearning]_vars
  /\ WF_vars(\E p \in Procs : Claim(p))
  /\ WF_vars(\E p \in Procs, status \in {"done", "error"} : Finalize(p, status))
  /\ WF_vars(\E p \in Procs : StartWorker(p))

\* C36: the recovery inside start_worker_if_enabled empties processing and
\* puts every file that was there into pending, none lost and none made
\* twice, as many as it counts; and every entry so recovered is later
\* claimed again by the worker
C36_RecoveredJobsClaimedAgain ==
  /\ [][\A p \in Procs :
          (lw[p].worker = "none" /\ lw'[p].worker = "idle") =>
            /\ jobs'.processing = {}
            /\ Serials(jobs'.pending) = Serials(jobs.pending) \cup Serials(jobs.processing)
            /\ Cardinality(jobs'.pending)
                 = Cardinality(jobs.pending) + Cardinality(jobs.processing)
            /\ Serials(jobs.processing) \subseteq jobs'.recovered]_vars
  /\ \A serial \in 1..MaxJobs :
       (serial \in jobs.recovered) ~> (serial \notin jobs.recovered)

(***************************************************************************)
(* Distance between heartbeat turns                                        *)
(***************************************************************************)
\* C37: a pass of the loop calls conversation.send only when at least one
\* interval (30 minutes from 07:00 to 18:00, 60 minutes from 18:00 to 22:00)
\* has gone by since the pass before it that called conversation.send,
\* whether that call returned or raised
C37_TurnsOneIntervalApart ==
  [][(beat.pc = "wait" /\ beat'.pc = "send" /\ beat.started # -1)
       => now' - beat.started >= get_interval_minutes(now')]_vars

(***************************************************************************)
(* The exchange counter                                                    *)
(***************************************************************************)
\* C38: a send that returns a reply leaves total_exchanges one higher than
\* it was when the send wrote it, so that the counter goes up by one for
\* each reply appended, and a send that raises leaves the counter as it is
C38_ExchangesCountReplies ==
  [][\A t \in Threads :
       /\ (pc[t] = "bump" /\ pc'[t] = "returned")
            => total_exchanges' = total_exchanges + 1
       /\ (pc[t] # "raised" /\ pc'[t] = "raised")
            => total_exchanges' = total_exchanges]_vars

(***************************************************************************)
(* A broadcast while the subscriber set changes                            *)
(***************************************************************************)
\* C39: no broadcast is ended by the error of its iterator, and when a
\* broadcast has ended every connection that was subscribed when it started
\* and is open still has been sent the event
C39_BroadcastReachesAllConnected ==
  /\ bc.pc # "failed"
  /\ bc.pc = "done" =>
       \A ws \in bc.at_start : sock[ws] = "open" => bc.ev \in got[ws]

====
